---- MODULE Spec2Model ----
(***************************************************************************)
(* Liquidity engines of the L2 capital-velocity simulation: the static     *)
(* channel engine (LegacyEngine), the JIT refill engine                    *)
(* (LegacyRefillEngine) and the pooled engine (ArkEngine).  One engine     *)
(* instance is constructed and then driven by process_transaction calls.   *)
(* Amounts are sats; the model uses small capacities and amounts.          *)
(* SimulationRunner.run feeds the rows of a traffic file to an engine and  *)
(* calculate_btc_days turns the TVL history it collects into BTC-days.      *)
(***************************************************************************)
EXTENDS Integers, Sequences, FiniteSets, TLC

\* ------------------------------------------------------------------ bounds
MaxCap == 4          \* largest channel_capacity a LegacyEngine is built with
SplitDen == 4        \* initial_split is drawn from k / SplitDen, k in 0..SplitDen
MaxAmt == 2          \* amount_sats is drawn from 1 .. MaxAmt
MaxTx == 3           \* calls made on a refill engine (its _total_tx_count)
MaxPoolCap == 1      \* largest pool_capacity an ArkEngine is built with
MaxUserInit == 1     \* largest user_initial_balance an ArkEngine is built with
MaxPool == 2         \* inbound is drawn only while pool_balance stays <= MaxPool
TimeStep == 400      \* timestamps are multiples of TimeStep
MaxTick == 3         \* ... up to MaxTick * TimeStep
MaxRows == 2         \* rows of the traffic file a SimulationRunner is given
MaxSamples == 3      \* longest tvl_history given to calculate_btc_days
MaxSampleTime == 1   \* its timestamps are 0 .. MaxSampleTime or one day
MaxTvl == 1          \* its TVLs are 0 .. MaxTvl sats or one BTC
MaxUsers == 2        \* largest population traffic is generated for
SIMULATION_DAYS == 1 \* SimulationConfig.SIMULATION_DAYS, shortened from a month

\* ------------------------------------------------- configuration constants
\* The engines import these from src.config, which does not define them in
\* this tree.  The values are those the tests state (a refill target of 50%,
\* 600 s per refill, rounds of 600 s); the fee per refill is stated nowhere
\* and stands for any positive number of sats.
REFILL_TARGET_NUM == 1
REFILL_TARGET_DEN == 2
REBALANCE_COST_SATS == 5
REBALANCE_LATENCY_SECONDS == 600
ARK_ROUND_INTERVAL == 600
\* the fee per round is stated nowhere either: any positive number of sats
ARK_ROUND_COST_SATS == 7

\* src/analysis/metrics.py
SECONDS_PER_DAY == 86400
SATS_PER_BTC == 100000000

\* ------------------------------------------------------------- data model
\* user_ids, the users an engine is constructed with; by the code each user
\* is one dictionary entry, and no operation involves more than two of them
Users == {0, 1}
\* 2 is an id that was never registered, -1 the external world
UserIds == Users \cup {2}
Ids == {-1} \cup UserIds
Amounts == 1 .. MaxAmt
Timestamps == { k * TimeStep : k \in 0 .. MaxTick }

TransactionType == {"INTERNAL", "EXTERNAL_INBOUND", "EXTERNAL_OUTBOUND"}

\* An INTERNAL transaction names two user ids, an external one has the
\* external world (-1) on its other side.
Transaction(ts) ==
    [tx_type : {"INTERNAL"}, sender_id : UserIds, receiver_id : UserIds,
     amount_sats : Amounts, timestamp : ts]
    \cup [tx_type : {"EXTERNAL_INBOUND"}, sender_id : {-1}, receiver_id : Ids,
          amount_sats : Amounts, timestamp : ts]
    \cup [tx_type : {"EXTERNAL_OUTBOUND"}, sender_id : Ids, receiver_id : {-1},
          amount_sats : Amounts, timestamp : ts]

\* calculate_btc_days has not been called
NotComputed == [computed |-> FALSE, days |-> 0, btc_seconds |-> 0, sat_seconds |-> 0]

NoTx == [tx_type |-> "NONE", sender_id |-> -1, receiver_id |-> -1,
         amount_sats |-> 0, timestamp |-> 0]

\* int(capacity * fraction) for a fraction num/den >= 0
IntOfProduct(capacity, num, den) == (capacity * num) \div den

Max(a, b) == IF a >= b THEN a ELSE b

\* The floats the statistics are reported in, kept exactly as fractions in
\* lowest terms (n >= 0, d > 0)
RECURSIVE GCD(_, _)
GCD(a, b) == IF b = 0 THEN a ELSE GCD(b, a % b)

Ratio(n, d) == LET g == GCD(n, d) IN [num |-> n \div g, den |-> d \div g]

RECURSIVE SumSeq(_)
SumSeq(s) == IF s = <<>> THEN 0 ELSE Head(s) + SumSeq(Tail(s))

RECURSIVE SumOver(_, _)
SumOver(f, S) ==
    IF S = {} THEN 0
    ELSE LET x == CHOOSE y \in S : TRUE IN f[x] + SumOver(f, S \ {x})

VARIABLES
    engine,                 \* get_name() of the engine that was constructed
    channel_capacity,       \* LegacyEngine._channel_capacity
    initial_split,          \* LegacyEngine._initial_split, in units of 1 / SplitDen
    channels,               \* LegacyEngine._channels
    total_fees_paid,        \* LegacyRefillEngine._total_fees_paid
    total_latency_seconds,  \* LegacyRefillEngine._total_latency_seconds
    refill_count,           \* LegacyRefillEngine._refill_count
    total_tx_count,         \* LegacyRefillEngine._total_tx_count
    pool_capacity,          \* ArkEngine._pool_capacity
    user_initial_balance,   \* ArkEngine.__init__ argument
    pool_balance,           \* ArkEngine._pool_balance
    user_balances,          \* ArkEngine._user_balances
    last_round_time,        \* ArkEngine._last_round_time
    round_count,            \* ArkEngine._round_count
    tvl_samples,            \* ArkEngine._tvl_samples
    tx,                     \* the transaction of the current process_transaction call
    ret,                    \* what that call returned
    pc,                     \* "idle", "running" (inside the call) or "returned";
                            \* in the traffic generator the loop it is in
    clock,                  \* timestamp of the latest transaction of a time-sorted traffic
    traffic,                \* SimulationRunner: rows of the traffic file read so far
    total_volume_processed, \* SimulationRunner.run: total_volume_processed
    total_volume_failed,    \* SimulationRunner.run: total_volume_failed
    tx_success_count,       \* SimulationRunner.run: tx_success_count
    tx_failure_count,       \* SimulationRunner.run: tx_failure_count
    tvl_history,            \* SimulationRunner.run: tvl_history
    btc_days,               \* what calculate_btc_days(tvl_history) returned
    users,                  \* generate_month_of_traffic: the population it was given
    arrival_time,           \* _generate_timestamps: current_time
    timestamps,             \* _generate_timestamps: timestamps
    transactions            \* generate_month_of_traffic: transactions

legacyVars == <<channel_capacity, initial_split, channels>>
refillVars == <<total_fees_paid, total_latency_seconds, refill_count, total_tx_count>>
arkVars == <<pool_capacity, user_initial_balance, pool_balance, user_balances,
             last_round_time, round_count, tvl_samples>>
runnerVars == <<traffic, total_volume_processed, total_volume_failed,
                tx_success_count, tx_failure_count, tvl_history>>
\* the state of the code around the engine
trafficVars == <<users, arrival_time, timestamps, transactions>>
callerVars == <<clock, runnerVars, btc_days, trafficVars>>
vars == <<engine, legacyVars, refillVars, arkVars, tx, ret, pc, callerVars>>

\* ------------------------------------------------------------ LegacyEngine
LegacyEngine_init(capacity, splitNum) ==
    LET local_balance == IntOfProduct(capacity, splitNum, SplitDen)
        remote_balance == capacity - local_balance
    IN [u \in Users |-> [local |-> local_balance, remote |-> remote_balance]]

\* Mutant: the user's balance is not checked.
Legacy_process_external_outbound_NoCheck(ch, sender_id, amount) ==
    IF sender_id \notin DOMAIN ch
    THEN [ok |-> FALSE, channels |-> ch]
    ELSE [ok |-> TRUE,
          channels |-> [ch EXCEPT ![sender_id].remote = @ - amount,
                                  ![sender_id].local = @ + amount]]

\* Mutant: a payment of the whole remote balance is refused.
Legacy_process_external_outbound_Strict(ch, sender_id, amount) ==
    IF sender_id \notin DOMAIN ch \/ ch[sender_id].remote <= amount
    THEN [ok |-> FALSE, channels |-> ch]
    ELSE [ok |-> TRUE,
          channels |-> [ch EXCEPT ![sender_id].remote = @ - amount,
                                  ![sender_id].local = @ + amount]]

Legacy_process_external_outbound(ch, sender_id, amount) ==
    IF sender_id \notin DOMAIN ch \/ ch[sender_id].remote < amount
    THEN [ok |-> FALSE, channels |-> ch]
    ELSE [ok |-> TRUE,
          channels |-> [ch EXCEPT ![sender_id].remote = @ - amount,
                                  ![sender_id].local = @ + amount]]

\* Mutant: the LSP-side balance is not checked.
Legacy_process_external_inbound_NoCheck(ch, receiver_id, amount) ==
    IF receiver_id \notin DOMAIN ch
    THEN [ok |-> FALSE, channels |-> ch]
    ELSE [ok |-> TRUE,
          channels |-> [ch EXCEPT ![receiver_id].local = @ - amount,
                                  ![receiver_id].remote = @ + amount]]

Legacy_process_external_inbound(ch, receiver_id, amount) ==
    IF receiver_id \notin DOMAIN ch \/ ch[receiver_id].local < amount
    THEN [ok |-> FALSE, channels |-> ch]
    ELSE [ok |-> TRUE,
          channels |-> [ch EXCEPT ![receiver_id].local = @ - amount,
                                  ![receiver_id].remote = @ + amount]]

\* Mutant: the receiver's leg debits local and never credits remote.
Legacy_process_internal_NoCredit(ch, sender_id, receiver_id, amount) ==
    IF sender_id \notin DOMAIN ch \/ receiver_id \notin DOMAIN ch
    THEN [ok |-> FALSE, channels |-> ch]
    ELSE IF ch[sender_id].remote < amount \/ ch[receiver_id].local < amount
    THEN [ok |-> FALSE, channels |-> ch]
    ELSE LET paid == [ch EXCEPT ![sender_id].remote = @ - amount,
                                ![sender_id].local = @ + amount]
         IN [ok |-> TRUE,
             channels |-> [paid EXCEPT ![receiver_id].local = @ - amount]]

\* Mutant: the receiver's channel is checked on the user's side.
Legacy_process_internal_WrongSide(ch, sender_id, receiver_id, amount) ==
    IF sender_id \notin DOMAIN ch \/ receiver_id \notin DOMAIN ch
    THEN [ok |-> FALSE, channels |-> ch]
    ELSE IF ch[sender_id].remote < amount \/ ch[receiver_id].remote < amount
    THEN [ok |-> FALSE, channels |-> ch]
    ELSE LET paid == [ch EXCEPT ![sender_id].remote = @ - amount,
                                ![sender_id].local = @ + amount]
         IN [ok |-> TRUE,
             channels |-> [paid EXCEPT ![receiver_id].local = @ - amount,
                                       ![receiver_id].remote = @ + amount]]

\* Mutant: the sender's leg is applied before the receiver's channel is
\* checked, so a rejected transfer keeps the first leg.
Legacy_process_internal_Partial(ch, sender_id, receiver_id, amount) ==
    IF sender_id \notin DOMAIN ch \/ receiver_id \notin DOMAIN ch
    THEN [ok |-> FALSE, channels |-> ch]
    ELSE IF ch[sender_id].remote < amount
    THEN [ok |-> FALSE, channels |-> ch]
    ELSE LET paid == [ch EXCEPT ![sender_id].remote = @ - amount,
                                ![sender_id].local = @ + amount]
         IN IF paid[receiver_id].local < amount
            THEN [ok |-> FALSE, channels |-> paid]
            ELSE [ok |-> TRUE,
                  channels |-> [paid EXCEPT ![receiver_id].local = @ - amount,
                                            ![receiver_id].remote = @ + amount]]

\* The two legs are applied one after the other to the dictionary, so a
\* transfer whose sender is its receiver updates the one channel twice.
Legacy_process_internal(ch, sender_id, receiver_id, amount) ==
    IF sender_id \notin DOMAIN ch \/ receiver_id \notin DOMAIN ch
    THEN [ok |-> FALSE, channels |-> ch]
    ELSE IF ch[sender_id].remote < amount \/ ch[receiver_id].local < amount
    THEN [ok |-> FALSE, channels |-> ch]
    ELSE LET paid == [ch EXCEPT ![sender_id].remote = @ - amount,
                                ![sender_id].local = @ + amount]
         IN [ok |-> TRUE,
             channels |-> [paid EXCEPT ![receiver_id].local = @ - amount,
                                       ![receiver_id].remote = @ + amount]]

Legacy_process_transaction(ch, t) ==
    IF t.tx_type = "EXTERNAL_OUTBOUND"
    THEN Legacy_process_external_outbound(ch, t.sender_id, t.amount_sats)
    ELSE IF t.tx_type = "EXTERNAL_INBOUND"
    THEN Legacy_process_external_inbound(ch, t.receiver_id, t.amount_sats)
    ELSE IF t.tx_type = "INTERNAL"
    THEN Legacy_process_internal(ch, t.sender_id, t.receiver_id, t.amount_sats)
    ELSE [ok |-> FALSE, channels |-> ch]

Legacy_get_current_tvl(ch) == SumOver([u \in DOMAIN ch |-> ch[u].local], DOMAIN ch)

\* ------------------------------------------------------ LegacyRefillEngine
\* st: [channels, total_fees_paid, total_latency_seconds, refill_count]
\* Mutant: the target is the percentage of capacity even when the
\* transaction is larger.
Refill_maybe_refill_for_receiver_NoMax(st, capacity, receiver_id, amount) ==
    IF receiver_id \notin DOMAIN st.channels THEN st
    ELSE LET current_local == st.channels[receiver_id].local
             target_local == IntOfProduct(capacity, REFILL_TARGET_NUM,
                                          REFILL_TARGET_DEN)
             amount_to_add == target_local - current_local
         IN IF current_local >= amount THEN st
            ELSE IF amount_to_add <= 0 THEN st
            ELSE [channels |-> [st.channels EXCEPT
                                    ![receiver_id].local = @ + amount_to_add],
                  total_fees_paid |-> st.total_fees_paid + REBALANCE_COST_SATS,
                  total_latency_seconds |->
                      st.total_latency_seconds + REBALANCE_LATENCY_SECONDS,
                  refill_count |-> st.refill_count + 1]

\* Mutant: a refill adds just what the transaction lacks.
Refill_maybe_refill_for_receiver_AddsShortfall(st, capacity, receiver_id, amount) ==
    IF receiver_id \notin DOMAIN st.channels THEN st
    ELSE LET current_local == st.channels[receiver_id].local
             amount_to_add == amount - current_local
         IN IF current_local >= amount THEN st
            ELSE IF amount_to_add <= 0 THEN st
            ELSE [channels |-> [st.channels EXCEPT
                                    ![receiver_id].local = @ + amount_to_add],
                  total_fees_paid |-> st.total_fees_paid + REBALANCE_COST_SATS,
                  total_latency_seconds |->
                      st.total_latency_seconds + REBALANCE_LATENCY_SECONDS,
                  refill_count |-> st.refill_count + 1]

\* Mutant: the channel is topped up whenever its LSP side is below the target.
Refill_maybe_refill_for_receiver_Eager(st, capacity, receiver_id, amount) ==
    IF receiver_id \notin DOMAIN st.channels THEN st
    ELSE LET current_local == st.channels[receiver_id].local
             target_local == Max(IntOfProduct(capacity, REFILL_TARGET_NUM,
                                              REFILL_TARGET_DEN), amount)
             amount_to_add == target_local - current_local
         IN IF amount_to_add <= 0 THEN st
            ELSE [channels |-> [st.channels EXCEPT
                                    ![receiver_id].local = @ + amount_to_add],
                  total_fees_paid |-> st.total_fees_paid + REBALANCE_COST_SATS,
                  total_latency_seconds |->
                      st.total_latency_seconds + REBALANCE_LATENCY_SECONDS,
                  refill_count |-> st.refill_count + 1]

\* Mutant: a refill adds no more than the room left under the channel's capacity.
Refill_maybe_refill_for_receiver_CapsAtCapacity(st, capacity, receiver_id, amount) ==
    IF receiver_id \notin DOMAIN st.channels THEN st
    ELSE LET current_local == st.channels[receiver_id].local
             target_local == Max(IntOfProduct(capacity, REFILL_TARGET_NUM,
                                              REFILL_TARGET_DEN), amount)
             room == capacity - current_local - st.channels[receiver_id].remote
             amount_to_add == IF target_local - current_local <= room
                              THEN target_local - current_local
                              ELSE room
         IN IF current_local >= amount THEN st
            ELSE IF amount_to_add <= 0 THEN st
            ELSE [channels |-> [st.channels EXCEPT
                                    ![receiver_id].local = @ + amount_to_add],
                  total_fees_paid |-> st.total_fees_paid + REBALANCE_COST_SATS,
                  total_latency_seconds |->
                      st.total_latency_seconds + REBALANCE_LATENCY_SECONDS,
                  refill_count |-> st.refill_count + 1]

\* Mutant: the fee of a refill grows with the amount added.
Refill_maybe_refill_for_receiver_FeePerSat(st, capacity, receiver_id, amount) ==
    IF receiver_id \notin DOMAIN st.channels THEN st
    ELSE LET current_local == st.channels[receiver_id].local
             target_local == Max(IntOfProduct(capacity, REFILL_TARGET_NUM,
                                              REFILL_TARGET_DEN), amount)
             amount_to_add == target_local - current_local
         IN IF current_local >= amount THEN st
            ELSE IF amount_to_add <= 0 THEN st
            ELSE [channels |-> [st.channels EXCEPT
                                    ![receiver_id].local = @ + amount_to_add],
                  total_fees_paid |->
                      st.total_fees_paid + REBALANCE_COST_SATS * amount_to_add,
                  total_latency_seconds |->
                      st.total_latency_seconds + REBALANCE_LATENCY_SECONDS,
                  refill_count |-> st.refill_count + 1]

Refill_maybe_refill_for_receiver(st, capacity, receiver_id, amount) ==
    IF receiver_id \notin DOMAIN st.channels THEN st
    ELSE LET current_local == st.channels[receiver_id].local
             target_local == Max(IntOfProduct(capacity, REFILL_TARGET_NUM,
                                              REFILL_TARGET_DEN), amount)
             amount_to_add == target_local - current_local
         IN IF current_local >= amount THEN st
            ELSE IF amount_to_add <= 0 THEN st
            ELSE [channels |-> [st.channels EXCEPT
                                    ![receiver_id].local = @ + amount_to_add],
                  total_fees_paid |-> st.total_fees_paid + REBALANCE_COST_SATS,
                  total_latency_seconds |->
                      st.total_latency_seconds + REBALANCE_LATENCY_SECONDS,
                  refill_count |-> st.refill_count + 1]

\* Mutant: the receiver's channel is refilled without asking whether the
\* sender can pay.
Refill_step1_NoSenderCheck(st, capacity, t) ==
    IF t.tx_type \in {"EXTERNAL_INBOUND", "INTERNAL"}
    THEN Refill_maybe_refill_for_receiver(st, capacity, t.receiver_id, t.amount_sats)
    ELSE st

\* Mutant: the sender's solvency is read from the LSP side of the channel.
Refill_step1_ChecksLocal(st, capacity, t) ==
    IF t.tx_type = "EXTERNAL_INBOUND"
    THEN Refill_maybe_refill_for_receiver(st, capacity, t.receiver_id, t.amount_sats)
    ELSE IF t.tx_type = "INTERNAL"
    THEN IF t.sender_id \in DOMAIN st.channels
            /\ st.channels[t.sender_id].local >= t.amount_sats
         THEN Refill_maybe_refill_for_receiver(st, capacity, t.receiver_id,
                                               t.amount_sats)
         ELSE st
    ELSE st

\* Mutant: an outbound payment tops up the sender's channel like an inbound one.
Refill_step1_RefillsOutbound(st, capacity, t) ==
    IF t.tx_type = "EXTERNAL_INBOUND"
    THEN Refill_maybe_refill_for_receiver(st, capacity, t.receiver_id, t.amount_sats)
    ELSE IF t.tx_type = "INTERNAL"
    THEN IF t.sender_id \in DOMAIN st.channels
            /\ st.channels[t.sender_id].remote >= t.amount_sats
         THEN Refill_maybe_refill_for_receiver(st, capacity, t.receiver_id,
                                               t.amount_sats)
         ELSE st
    ELSE Refill_maybe_refill_for_receiver(st, capacity, t.sender_id, t.amount_sats)

\* Step 1 of process_transaction: analyse liquidity and potentially refill
Refill_step1(st, capacity, t) ==
    IF t.tx_type = "EXTERNAL_INBOUND"
    THEN Refill_maybe_refill_for_receiver(st, capacity, t.receiver_id, t.amount_sats)
    ELSE IF t.tx_type = "INTERNAL"
    THEN IF t.sender_id \in DOMAIN st.channels
            /\ st.channels[t.sender_id].remote >= t.amount_sats
         THEN Refill_maybe_refill_for_receiver(st, capacity, t.receiver_id,
                                               t.amount_sats)
         ELSE st
    ELSE st

\* Mutant: only accepted transactions are counted as seen.
Refill_process_transaction_CountsAccepted(st, capacity, t) ==
    LET refilled == Refill_step1(st, capacity, t)
        done == Legacy_process_transaction(refilled.channels, t)
    IN [ok |-> done.ok,
        channels |-> done.channels,
        total_fees_paid |-> refilled.total_fees_paid,
        total_latency_seconds |-> refilled.total_latency_seconds,
        refill_count |-> refilled.refill_count,
        total_tx_count |-> st.total_tx_count + (IF done.ok THEN 1 ELSE 0)]

\* st as above plus total_tx_count; the result adds ok
Refill_process_transaction(st, capacity, t) ==
    LET refilled == Refill_step1(st, capacity, t)
        done == Legacy_process_transaction(refilled.channels, t)
    IN [ok |-> done.ok,
        channels |-> done.channels,
        total_fees_paid |-> refilled.total_fees_paid,
        total_latency_seconds |-> refilled.total_latency_seconds,
        refill_count |-> refilled.refill_count,
        total_tx_count |-> st.total_tx_count + 1]

\* LegacyRefillEngine.get_operational_stats; st as for process_transaction
Refill_get_operational_stats(st) ==
    LET avg_latency == IF st.total_tx_count > 0
                       THEN Ratio(st.total_latency_seconds, st.total_tx_count)
                       ELSE Ratio(0, 1)
    IN [refill_count |-> Ratio(st.refill_count, 1),
        total_fees_btc |-> Ratio(st.total_fees_paid, SATS_PER_BTC),
        avg_latency_seconds |-> avg_latency]

\* --------------------------------------------------------------- ArkEngine
\* Mutant: a timestamp from before the last round takes the round counter
\* back to the round of that timestamp.
Ark_check_round_Rewinds(st, current_time) ==
    IF current_time <= st.last_round_time
    THEN [st EXCEPT !.round_count = current_time \div ARK_ROUND_INTERVAL,
                    !.last_round_time =
                        (current_time \div ARK_ROUND_INTERVAL) * ARK_ROUND_INTERVAL]
    ELSE LET elapsed == current_time - st.last_round_time
             rounds_passed == elapsed \div ARK_ROUND_INTERVAL
         IN IF rounds_passed > 0
            THEN [st EXCEPT !.round_count = @ + rounds_passed,
                            !.last_round_time = @ + rounds_passed * ARK_ROUND_INTERVAL,
                            !.tvl_samples = Append(@, st.pool_balance)]
            ELSE st

\* Mutant: one TVL sample is taken for every round that passed.
Ark_check_round_SamplePerRound(st, current_time) ==
    IF current_time <= st.last_round_time THEN st
    ELSE LET elapsed == current_time - st.last_round_time
             rounds_passed == elapsed \div ARK_ROUND_INTERVAL
         IN IF rounds_passed > 0
            THEN [st EXCEPT !.round_count = @ + rounds_passed,
                            !.last_round_time = @ + rounds_passed * ARK_ROUND_INTERVAL,
                            !.tvl_samples =
                                @ \o [k \in 1 .. rounds_passed |-> st.pool_balance]]
            ELSE st

\* Mutant: the round clock jumps to the transaction's time instead of
\* advancing by whole intervals.
Ark_check_round_Drifts(st, current_time) ==
    IF current_time <= st.last_round_time THEN st
    ELSE LET elapsed == current_time - st.last_round_time
             rounds_passed == elapsed \div ARK_ROUND_INTERVAL
         IN IF rounds_passed > 0
            THEN [st EXCEPT !.round_count = @ + rounds_passed,
                            !.last_round_time = current_time,
                            !.tvl_samples = Append(@, st.pool_balance)]
            ELSE st

\* st: [pool_balance, user_balances, last_round_time, round_count, tvl_samples]
Ark_check_round(st, current_time) ==
    IF current_time <= st.last_round_time THEN st
    ELSE LET elapsed == current_time - st.last_round_time
             rounds_passed == elapsed \div ARK_ROUND_INTERVAL
         IN IF rounds_passed > 0
            THEN [st EXCEPT !.round_count = @ + rounds_passed,
                            !.last_round_time = @ + rounds_passed * ARK_ROUND_INTERVAL,
                            !.tvl_samples = Append(@, st.pool_balance)]
            ELSE st

\* Mutant: the pool's liquidity is not checked.
Ark_process_external_outbound_NoPoolCheck(st, sender_id, amount) ==
    IF sender_id \notin DOMAIN st.user_balances
       \/ st.user_balances[sender_id] < amount
    THEN [ok |-> FALSE, st |-> st]
    ELSE [ok |-> TRUE,
          st |-> [st EXCEPT !.user_balances[sender_id] = @ - amount,
                            !.pool_balance = @ - amount]]

\* Mutant: the payment leaves the user's balance but not the pool.
Ark_process_external_outbound_KeepsPool(st, sender_id, amount) ==
    IF sender_id \notin DOMAIN st.user_balances
       \/ st.user_balances[sender_id] < amount
    THEN [ok |-> FALSE, st |-> st]
    ELSE IF st.pool_balance < amount
    THEN [ok |-> FALSE, st |-> st]
    ELSE [ok |-> TRUE,
          st |-> [st EXCEPT !.user_balances[sender_id] = @ - amount]]

Ark_process_external_outbound(st, sender_id, amount) ==
    IF sender_id \notin DOMAIN st.user_balances
       \/ st.user_balances[sender_id] < amount
    THEN [ok |-> FALSE, st |-> st]
    ELSE IF st.pool_balance < amount
    THEN [ok |-> FALSE, st |-> st]
    ELSE [ok |-> TRUE,
          st |-> [st EXCEPT !.user_balances[sender_id] = @ - amount,
                            !.pool_balance = @ - amount]]

\* Mutant: a deposit larger than the pool's current balance is refused.
Ark_process_external_inbound_Capped(st, receiver_id, amount) ==
    IF receiver_id \notin DOMAIN st.user_balances
    THEN [ok |-> FALSE, st |-> st]
    ELSE IF amount > st.pool_balance
    THEN [ok |-> FALSE, st |-> st]
    ELSE [ok |-> TRUE,
          st |-> [st EXCEPT !.user_balances[receiver_id] = @ + amount,
                            !.pool_balance = @ + amount]]

\* Mutant: a deposit to an unknown receiver opens a balance for that id.
Ark_process_external_inbound_Registers(st, receiver_id, amount) ==
    IF receiver_id \notin DOMAIN st.user_balances
    THEN [ok |-> TRUE,
          st |-> [st EXCEPT !.user_balances =
                                [u \in DOMAIN st.user_balances \cup {receiver_id} |->
                                    IF u = receiver_id THEN amount
                                    ELSE st.user_balances[u]],
                            !.pool_balance = @ + amount]]
    ELSE [ok |-> TRUE,
          st |-> [st EXCEPT !.user_balances[receiver_id] = @ + amount,
                            !.pool_balance = @ + amount]]

\* Mutant: the pool takes the deposit but the receiver is not credited.
Ark_process_external_inbound_NoCredit(st, receiver_id, amount) ==
    IF receiver_id \notin DOMAIN st.user_balances
    THEN [ok |-> FALSE, st |-> st]
    ELSE [ok |-> TRUE,
          st |-> [st EXCEPT !.pool_balance = @ + amount]]

Ark_process_external_inbound(st, receiver_id, amount) ==
    IF receiver_id \notin DOMAIN st.user_balances
    THEN [ok |-> FALSE, st |-> st]
    ELSE [ok |-> TRUE,
          st |-> [st EXCEPT !.user_balances[receiver_id] = @ + amount,
                            !.pool_balance = @ + amount]]

\* Mutant: the sender's balance is not checked.
Ark_process_internal_NoBalanceCheck(st, sender_id, receiver_id, amount) ==
    IF sender_id \notin DOMAIN st.user_balances
    THEN [ok |-> FALSE, st |-> st]
    ELSE IF receiver_id \notin DOMAIN st.user_balances
    THEN [ok |-> FALSE, st |-> st]
    ELSE LET debited == [st.user_balances EXCEPT ![sender_id] = @ - amount]
         IN [ok |-> TRUE,
             st |-> [st EXCEPT !.user_balances =
                                   [debited EXCEPT ![receiver_id] = @ + amount]]]

\* Mutant: an internal transfer is paid out of the pool as well.
Ark_process_internal_UsesPool(st, sender_id, receiver_id, amount) ==
    IF sender_id \notin DOMAIN st.user_balances
       \/ st.user_balances[sender_id] < amount
    THEN [ok |-> FALSE, st |-> st]
    ELSE IF receiver_id \notin DOMAIN st.user_balances
    THEN [ok |-> FALSE, st |-> st]
    ELSE LET debited == [st.user_balances EXCEPT ![sender_id] = @ - amount]
         IN [ok |-> TRUE,
             st |-> [st EXCEPT !.user_balances =
                                   [debited EXCEPT ![receiver_id] = @ + amount],
                               !.pool_balance = @ - amount]]

\* Mutant: an internal transfer needs the pool to hold the amount.
Ark_process_internal_NeedsPool(st, sender_id, receiver_id, amount) ==
    IF sender_id \notin DOMAIN st.user_balances
       \/ st.user_balances[sender_id] < amount
    THEN [ok |-> FALSE, st |-> st]
    ELSE IF receiver_id \notin DOMAIN st.user_balances
            \/ st.pool_balance < amount
    THEN [ok |-> FALSE, st |-> st]
    ELSE LET debited == [st.user_balances EXCEPT ![sender_id] = @ - amount]
         IN [ok |-> TRUE,
             st |-> [st EXCEPT !.user_balances =
                                   [debited EXCEPT ![receiver_id] = @ + amount]]]

Ark_process_internal(st, sender_id, receiver_id, amount) ==
    IF sender_id \notin DOMAIN st.user_balances
       \/ st.user_balances[sender_id] < amount
    THEN [ok |-> FALSE, st |-> st]
    ELSE IF receiver_id \notin DOMAIN st.user_balances
    THEN [ok |-> FALSE, st |-> st]
    ELSE LET debited == [st.user_balances EXCEPT ![sender_id] = @ - amount]
         IN [ok |-> TRUE,
             st |-> [st EXCEPT !.user_balances =
                                   [debited EXCEPT ![receiver_id] = @ + amount]]]

\* Mutant: a rejected transaction leaves the engine as it was before the call.
Ark_process_transaction_RollsBack(st, t) ==
    LET checked == Ark_check_round(st, t.timestamp)
        r == IF t.tx_type = "EXTERNAL_OUTBOUND"
             THEN Ark_process_external_outbound(checked, t.sender_id, t.amount_sats)
             ELSE IF t.tx_type = "EXTERNAL_INBOUND"
             THEN Ark_process_external_inbound(checked, t.receiver_id, t.amount_sats)
             ELSE IF t.tx_type = "INTERNAL"
             THEN Ark_process_internal(checked, t.sender_id, t.receiver_id,
                                       t.amount_sats)
             ELSE [ok |-> FALSE, st |-> checked]
    IN IF r.ok THEN r ELSE [ok |-> FALSE, st |-> st]

\* Mutant: the round check runs after the transaction has been applied.
Ark_process_transaction_ChecksAfter(st, t) ==
    LET r == IF t.tx_type = "EXTERNAL_OUTBOUND"
             THEN Ark_process_external_outbound(st, t.sender_id, t.amount_sats)
             ELSE IF t.tx_type = "EXTERNAL_INBOUND"
             THEN Ark_process_external_inbound(st, t.receiver_id, t.amount_sats)
             ELSE IF t.tx_type = "INTERNAL"
             THEN Ark_process_internal(st, t.sender_id, t.receiver_id,
                                       t.amount_sats)
             ELSE [ok |-> FALSE, st |-> st]
    IN [ok |-> r.ok, st |-> Ark_check_round(r.st, t.timestamp)]

Ark_process_transaction(st, t) ==
    LET checked == Ark_check_round(st, t.timestamp)
    IN IF t.tx_type = "EXTERNAL_OUTBOUND"
       THEN Ark_process_external_outbound(checked, t.sender_id, t.amount_sats)
       ELSE IF t.tx_type = "EXTERNAL_INBOUND"
       THEN Ark_process_external_inbound(checked, t.receiver_id, t.amount_sats)
       ELSE IF t.tx_type = "INTERNAL"
       THEN Ark_process_internal(checked, t.sender_id, t.receiver_id, t.amount_sats)
       ELSE [ok |-> FALSE, st |-> checked]

Ark_get_current_tvl(st) == st.pool_balance

Ark_get_operational_stats(st) ==
    LET total_fees_sats == st.round_count * ARK_ROUND_COST_SATS
        avg_tvl == IF st.tvl_samples # <<>>
                   THEN Ratio(SumSeq(st.tvl_samples), Len(st.tvl_samples))
                   ELSE Ratio(0, 1)
    IN [round_count |-> Ratio(st.round_count, 1),
        total_fees_btc |-> Ratio(total_fees_sats, SATS_PER_BTC),
        avg_tvl |-> avg_tvl]

\* ------------------------------------------------------ calculate_btc_days
\* One BTC held for a day is 8.64e12 sat-seconds, more than a 32-bit integer
\* holds.  A quantity q of sat-seconds is therefore kept exactly as
\* [whole |-> q \div SATS_PER_BTC, part |-> q % SATS_PER_BTC].
NoSatSeconds == [whole |-> 0, part |-> 0]

\* prev_tvl * time_delta_seconds
SatSeconds(tvl, seconds) ==
    LET low == (tvl % SATS_PER_BTC) * seconds
    IN [whole |-> (tvl \div SATS_PER_BTC) * seconds + low \div SATS_PER_BTC,
        part |-> low % SATS_PER_BTC]

\* total_sat_seconds += q
AddSatSeconds(total_sat_seconds, q) ==
    LET low == total_sat_seconds.part + q.part
    IN [whole |-> total_sat_seconds.whole + q.whole + low \div SATS_PER_BTC,
        part |-> low % SATS_PER_BTC]

\* total_sat_seconds / SATS_PER_BTC / SECONDS_PER_DAY, exactly: the result is
\* days + btc_seconds / SECONDS_PER_DAY
\*      + sat_seconds / (SATS_PER_BTC * SECONDS_PER_DAY)  BTC-days
BtcDays(total_sat_seconds) ==
    [computed |-> TRUE,
     days |-> total_sat_seconds.whole \div SECONDS_PER_DAY,
     btc_seconds |-> total_sat_seconds.whole % SECONDS_PER_DAY,
     sat_seconds |-> total_sat_seconds.part]

\* Mutant: a step back in time counts with its length.
RECURSIVE calculate_btc_days_loop_AbsDelta(_, _, _)
calculate_btc_days_loop_AbsDelta(tvl_hist, i, total_sat_seconds) ==
    IF i > Len(tvl_hist) THEN total_sat_seconds
    ELSE LET prev_timestamp == tvl_hist[i - 1][1]
             prev_tvl == tvl_hist[i - 1][2]
             curr_timestamp == tvl_hist[i][1]
             time_delta_seconds == IF curr_timestamp >= prev_timestamp
                                   THEN curr_timestamp - prev_timestamp
                                   ELSE prev_timestamp - curr_timestamp
         IN calculate_btc_days_loop_AbsDelta(tvl_hist, i + 1,
                IF time_delta_seconds > 0
                THEN AddSatSeconds(total_sat_seconds,
                                   SatSeconds(prev_tvl, time_delta_seconds))
                ELSE total_sat_seconds)

\* Mutant: the TVL at the end of each interval is used (right Riemann sum).
RECURSIVE calculate_btc_days_loop_RightSum(_, _, _)
calculate_btc_days_loop_RightSum(tvl_hist, i, total_sat_seconds) ==
    IF i > Len(tvl_hist) THEN total_sat_seconds
    ELSE LET prev_timestamp == tvl_hist[i - 1][1]
             curr_timestamp == tvl_hist[i][1]
             curr_tvl == tvl_hist[i][2]
             time_delta_seconds == curr_timestamp - prev_timestamp
         IN calculate_btc_days_loop_RightSum(tvl_hist, i + 1,
                IF time_delta_seconds > 0
                THEN AddSatSeconds(total_sat_seconds,
                                   SatSeconds(curr_tvl, time_delta_seconds))
                ELSE total_sat_seconds)

\* The loop of calculate_btc_days from the pair (i - 1, i) on; sequences
\* are indexed from 1 here.
RECURSIVE calculate_btc_days_loop(_, _, _)
calculate_btc_days_loop(tvl_hist, i, total_sat_seconds) ==
    IF i > Len(tvl_hist) THEN total_sat_seconds
    ELSE LET prev_timestamp == tvl_hist[i - 1][1]
             prev_tvl == tvl_hist[i - 1][2]
             curr_timestamp == tvl_hist[i][1]
             time_delta_seconds == curr_timestamp - prev_timestamp
         IN calculate_btc_days_loop(tvl_hist, i + 1,
                IF time_delta_seconds > 0
                THEN AddSatSeconds(total_sat_seconds,
                                   SatSeconds(prev_tvl, time_delta_seconds))
                ELSE total_sat_seconds)

\* Mutant: the first interval is left out.
calculate_btc_days_SkipsFirst(tvl_hist) ==
    IF Len(tvl_hist) < 2 THEN BtcDays(NoSatSeconds)
    ELSE BtcDays(calculate_btc_days_loop(tvl_hist, 3, NoSatSeconds))

calculate_btc_days(tvl_hist) ==
    IF Len(tvl_hist) < 2 THEN BtcDays(NoSatSeconds)
    ELSE BtcDays(calculate_btc_days_loop(tvl_hist, 2, NoSatSeconds))

\* The histories calculate_btc_days is tried on: any samples in any order.
SampleTimes == 0 .. MaxSampleTime \cup {SECONDS_PER_DAY}
SampleTvls == 0 .. MaxTvl \cup {SATS_PER_BTC}
Histories ==
    UNION { [1 .. n -> SampleTimes \X SampleTvls] : n \in 0 .. MaxSamples }

\* -------------------------------------------------------- SimulationRunner
\* The rows of the traffic file: user 0 pays and user 1 is paid, at time 0 or
\* one round later, in any order.
TrafficRows ==
    { r \in Transaction({0, ARK_ROUND_INTERVAL}) :
          /\ r.sender_id \in {-1, 0} /\ r.receiver_id \in {-1, 1}
          /\ r.sender_id # r.receiver_id }

_row_to_transaction(row) ==
    [tx_type |-> row.tx_type, sender_id |-> row.sender_id,
     receiver_id |-> row.receiver_id, amount_sats |-> row.amount_sats,
     timestamp |-> row.timestamp]

\* Mutant: a sample is stamped with how far the traffic file has been read,
\* a value of the surroundings, instead of the transaction's timestamp.
Runner_record_Ambient(st, t, success, current_tvl) ==
    LET counted ==
            IF success
            THEN [st EXCEPT !.total_volume_processed = @ + t.amount_sats,
                            !.tx_success_count = @ + 1]
            ELSE [st EXCEPT !.total_volume_failed = @ + t.amount_sats,
                            !.tx_failure_count = @ + 1]
    IN [counted EXCEPT !.tvl_history = Append(@, <<Len(traffic), current_tvl>>)]

\* Mutant: a rejected transaction leaves no TVL sample.
Runner_record_SkipsFailed(st, t, success, current_tvl) ==
    IF success
    THEN [st EXCEPT !.total_volume_processed = @ + t.amount_sats,
                    !.tx_success_count = @ + 1,
                    !.tvl_history = Append(@, <<t.timestamp, current_tvl>>)]
    ELSE [st EXCEPT !.total_volume_failed = @ + t.amount_sats,
                    !.tx_failure_count = @ + 1]

\* Mutant: a rejected transaction is counted but its amount is dropped.
Runner_record_DropsFailedVolume(st, t, success, current_tvl) ==
    LET counted ==
            IF success
            THEN [st EXCEPT !.total_volume_processed = @ + t.amount_sats,
                            !.tx_success_count = @ + 1]
            ELSE [st EXCEPT !.tx_failure_count = @ + 1]
    IN [counted EXCEPT !.tvl_history = Append(@, <<t.timestamp, current_tvl>>)]

\* The body of the loop of run() after process_transaction has returned.
\* st: [total_volume_processed, total_volume_failed, tx_success_count,
\*      tx_failure_count, tvl_history]
Runner_record(st, t, success, current_tvl) ==
    LET counted ==
            IF success
            THEN [st EXCEPT !.total_volume_processed = @ + t.amount_sats,
                            !.tx_success_count = @ + 1]
            ELSE [st EXCEPT !.total_volume_failed = @ + t.amount_sats,
                            !.tx_failure_count = @ + 1]
    IN [counted EXCEPT !.tvl_history = Append(@, <<t.timestamp, current_tvl>>)]

\* ------------------------------------------------------------ construction
\* The fields of the engines that were not constructed hold these values.
NoLegacy == channel_capacity = 0 /\ initial_split = 0 /\ channels = <<>>
NoRefill ==
    /\ total_fees_paid = 0 /\ total_latency_seconds = 0
    /\ refill_count = 0 /\ total_tx_count = 0
NoArk ==
    /\ pool_capacity = 0 /\ user_initial_balance = 0 /\ pool_balance = 0
    /\ user_balances = <<>> /\ last_round_time = 0 /\ round_count = 0
    /\ tvl_samples = <<>>

\* run() has not started: its counters are zero and its lists empty
NoRunner ==
    /\ traffic = <<>>
    /\ total_volume_processed = 0 /\ total_volume_failed = 0
    /\ tx_success_count = 0 /\ tx_failure_count = 0
    /\ tvl_history = <<>>
NoMetrics == btc_days = NotComputed
\* no traffic is being generated
NoTraffic ==
    /\ users = <<>> /\ arrival_time = 0
    /\ timestamps = <<>> /\ transactions = <<>>

InitLegacy ==
    /\ engine = "Legacy"
    /\ channel_capacity \in 1 .. MaxCap
    /\ initial_split \in 0 .. SplitDen
    /\ channels = LegacyEngine_init(channel_capacity, initial_split)
    /\ NoRefill /\ NoArk
    /\ tx = NoTx /\ ret = FALSE /\ pc = "idle"
    /\ clock = 0 /\ NoRunner /\ NoMetrics /\ NoTraffic

InitRefill ==
    /\ engine = "LegacyRefill"
    /\ channel_capacity \in 1 .. MaxCap
    /\ initial_split \in 0 .. SplitDen
    /\ channels = LegacyEngine_init(channel_capacity, initial_split)
    /\ NoRefill /\ NoArk
    /\ tx = NoTx /\ ret = FALSE /\ pc = "idle"
    /\ clock = 0 /\ NoRunner /\ NoMetrics /\ NoTraffic

InitArk ==
    /\ engine = "Ark"
    /\ NoLegacy /\ NoRefill
    /\ pool_capacity \in 0 .. MaxPoolCap
    /\ user_initial_balance \in 0 .. MaxUserInit
    /\ pool_balance = pool_capacity
    /\ user_balances = [u \in Users |-> user_initial_balance]
    /\ last_round_time = 0
    /\ round_count = 0
    /\ tvl_samples = <<pool_capacity>>
    /\ tx = NoTx /\ ret = FALSE /\ pc = "idle"
    /\ clock = 0 /\ NoRunner /\ NoMetrics /\ NoTraffic

Init == InitLegacy \/ InitRefill \/ InitArk

\* PassthroughEngine has no fields
InitPassthrough ==
    /\ engine = "Passthrough"
    /\ NoLegacy /\ NoRefill /\ NoArk
    /\ tx = NoTx /\ ret = FALSE /\ pc = "idle"
    /\ clock = 0 /\ NoRunner /\ NoMetrics /\ NoTraffic

\* A TVL history is at hand and no engine is involved.
InitMetrics ==
    /\ engine = "None"
    /\ NoLegacy /\ NoRefill /\ NoArk
    /\ tx = NoTx /\ ret = FALSE /\ pc = "idle"
    /\ clock = 0
    /\ traffic = <<>>
    /\ total_volume_processed = 0 /\ total_volume_failed = 0
    /\ tx_success_count = 0 /\ tx_failure_count = 0
    /\ tvl_history \in Histories
    /\ NoMetrics /\ NoTraffic

\* SimulationRunner(traffic_path, engine) with any of the four engines
InitRunner == InitPassthrough \/ InitLegacy \/ InitRefill \/ InitArk

\* -------------------------------------------------------------- operations
\* The inputs a caller may pass next.  The bounds of the model stop the
\* counters that the code lets grow without limit.
Callable(t) ==
    /\ engine = "LegacyRefill" => total_tx_count < MaxTx
    /\ engine = "Ark" =>
          /\ t.timestamp \in Timestamps
          /\ t.tx_type = "EXTERNAL_INBOUND" => pool_balance + t.amount_sats <= MaxPool
    /\ engine # "Ark" => t.timestamp = 0   \* only ArkEngine reads tx.timestamp

\* engine.process_transaction(tx) is called with a transaction
Call ==
    /\ pc = "idle"
    /\ \E t \in Transaction(Timestamps) : Callable(t) /\ tx' = t
    /\ pc' = "running"
    /\ UNCHANGED <<engine, legacyVars, refillVars, arkVars, ret, callerVars>>

\* The same call made by a caller that feeds traffic sorted by timestamp, as
\* TrafficGenerator.generate_month_of_traffic returns it: no transaction is
\* older than the one before it.
CallSorted ==
    /\ pc = "idle"
    /\ \E t \in Transaction(Timestamps) :
          /\ Callable(t)
          /\ t.timestamp >= clock
          /\ tx' = t
          /\ clock' = t.timestamp
    /\ pc' = "running"
    /\ UNCHANGED <<engine, legacyVars, refillVars, arkVars, ret, runnerVars,
                   btc_days, trafficVars>>

\* LegacyEngine.process_transaction
LegacyProcess ==
    /\ pc = "running"
    /\ engine = "Legacy"
    /\ LET r == Legacy_process_transaction(channels, tx)
       IN channels' = r.channels /\ ret' = r.ok
    /\ pc' = "returned"
    /\ UNCHANGED <<engine, channel_capacity, initial_split, refillVars, arkVars,
                   tx, callerVars>>

RefillState ==
    [channels |-> channels, total_fees_paid |-> total_fees_paid,
     total_latency_seconds |-> total_latency_seconds,
     refill_count |-> refill_count, total_tx_count |-> total_tx_count]

\* LegacyRefillEngine.process_transaction
RefillProcess ==
    /\ pc = "running"
    /\ engine = "LegacyRefill"
    /\ LET r == Refill_process_transaction(RefillState, channel_capacity, tx)
       IN /\ channels' = r.channels
          /\ total_fees_paid' = r.total_fees_paid
          /\ total_latency_seconds' = r.total_latency_seconds
          /\ refill_count' = r.refill_count
          /\ total_tx_count' = r.total_tx_count
          /\ ret' = r.ok
    /\ pc' = "returned"
    /\ UNCHANGED <<engine, channel_capacity, initial_split, arkVars, tx,
                   callerVars>>

ArkState ==
    [pool_balance |-> pool_balance, user_balances |-> user_balances,
     last_round_time |-> last_round_time, round_count |-> round_count,
     tvl_samples |-> tvl_samples]

\* ArkEngine.process_transaction
ArkProcess ==
    /\ pc = "running"
    /\ engine = "Ark"
    /\ LET r == Ark_process_transaction(ArkState, tx)
       IN /\ pool_balance' = r.st.pool_balance
          /\ user_balances' = r.st.user_balances
          /\ last_round_time' = r.st.last_round_time
          /\ round_count' = r.st.round_count
          /\ tvl_samples' = r.st.tvl_samples
          /\ ret' = r.ok
    /\ pc' = "returned"
    /\ UNCHANGED <<engine, legacyVars, refillVars, pool_capacity,
                   user_initial_balance, tx, callerVars>>

\* The caller has taken the result; the engine waits for the next call.
Return ==
    /\ pc = "returned"
    /\ pc' = "idle"
    /\ tx' = NoTx
    /\ ret' = FALSE
    /\ UNCHANGED <<engine, legacyVars, refillVars, arkVars, callerVars>>

\* PassthroughEngine.process_transaction
PassthroughProcess ==
    /\ pc = "running"
    /\ engine = "Passthrough"
    /\ ret' = TRUE
    /\ pc' = "returned"
    /\ UNCHANGED <<engine, legacyVars, refillVars, arkVars, tx, callerVars>>

\* get_current_tvl() of the engine that was constructed
Engine_get_current_tvl ==
    CASE engine = "Passthrough" -> 0
      [] engine \in {"Legacy", "LegacyRefill"} -> Legacy_get_current_tvl(channels)
      [] engine = "Ark" -> Ark_get_current_tvl(ArkState)

RunnerState ==
    [total_volume_processed |-> total_volume_processed,
     total_volume_failed |-> total_volume_failed,
     tx_success_count |-> tx_success_count,
     tx_failure_count |-> tx_failure_count,
     tvl_history |-> tvl_history]

\* run(): the loop reads the next row of the traffic file, which may end
\* after any row, and calls engine.process_transaction with it
RunnerRead ==
    /\ pc = "idle"
    /\ Len(traffic) < MaxRows
    /\ \E row \in TrafficRows :
          /\ traffic' = Append(traffic, row)
          /\ tx' = _row_to_transaction(row)
    /\ pc' = "running"
    /\ UNCHANGED <<engine, legacyVars, refillVars, arkVars, ret, clock,
                   total_volume_processed, total_volume_failed,
                   tx_success_count, tx_failure_count, tvl_history, btc_days,
                   trafficVars>>

\* run(): the call has returned; the loop counts the transaction and samples
\* the engine's TVL
RunnerRecord ==
    /\ pc = "returned"
    /\ LET r == Runner_record(RunnerState, tx, ret, Engine_get_current_tvl)
       IN /\ total_volume_processed' = r.total_volume_processed
          /\ total_volume_failed' = r.total_volume_failed
          /\ tx_success_count' = r.tx_success_count
          /\ tx_failure_count' = r.tx_failure_count
          /\ tvl_history' = r.tvl_history
    /\ pc' = "idle"
    /\ tx' = NoTx
    /\ ret' = FALSE
    /\ UNCHANGED <<engine, legacyVars, refillVars, arkVars, traffic, clock,
                   btc_days, trafficVars>>

Next == Call \/ LegacyProcess \/ RefillProcess \/ ArkProcess \/ Return

Spec == Init /\ [][Next]_vars

NextLegacy == Call \/ LegacyProcess \/ Return
NextRefill == Call \/ RefillProcess \/ Return
NextArk == Call \/ ArkProcess \/ Return

SpecLegacy == InitLegacy /\ [][NextLegacy]_vars
SpecRefill == InitRefill /\ [][NextRefill]_vars
SpecArk == InitArk /\ [][NextArk]_vars

\* ArkEngine driven by time-sorted traffic
NextArkSorted == CallSorted \/ ArkProcess \/ Return
SpecArkSorted == InitArk /\ [][NextArkSorted]_vars

\* btc_days = calculate_btc_days(tvl_history)
Calculate ==
    /\ ~btc_days.computed
    /\ btc_days' = calculate_btc_days(tvl_history)
    /\ UNCHANGED <<engine, legacyVars, refillVars, arkVars, tx, ret, pc, clock,
                   runnerVars, trafficVars>>

SpecMetrics == InitMetrics /\ [][Calculate]_vars

\* What run() returns when the traffic file ends here: the SimulationResult
\* it constructs
Runner_result ==
    [engine_name |-> engine,
     total_volume_processed |-> total_volume_processed,
     total_volume_failed |-> total_volume_failed,
     tx_success_count |-> tx_success_count,
     tx_failure_count |-> tx_failure_count,
     tvl_history |-> tvl_history]

\* get_operational_stats() of the engines that have it
Engine_get_operational_stats ==
    CASE engine = "LegacyRefill" -> Refill_get_operational_stats(RefillState)
      [] engine = "Ark" -> Ark_get_operational_stats(ArkState)

\* ------------------------------------------------------------ a second run
\* The whole state of the engine as one value
EngineState ==
    [channels |-> channels,
     total_fees_paid |-> total_fees_paid,
     total_latency_seconds |-> total_latency_seconds,
     refill_count |-> refill_count,
     total_tx_count |-> total_tx_count,
     pool_balance |-> pool_balance,
     user_balances |-> user_balances,
     last_round_time |-> last_round_time,
     round_count |-> round_count,
     tvl_samples |-> tvl_samples]

\* The state of a freshly constructed engine of the same kind, built with the
\* same constructor arguments
FreshEngineState ==
    [channels |-> IF engine \in {"Legacy", "LegacyRefill"}
                  THEN LegacyEngine_init(channel_capacity, initial_split)
                  ELSE <<>>,
     total_fees_paid |-> 0,
     total_latency_seconds |-> 0,
     refill_count |-> 0,
     total_tx_count |-> 0,
     pool_balance |-> pool_capacity,
     user_balances |-> IF engine = "Ark"
                       THEN [u \in Users |-> user_initial_balance]
                       ELSE <<>>,
     last_round_time |-> 0,
     round_count |-> 0,
     tvl_samples |-> IF engine = "Ark" THEN <<pool_capacity>> ELSE <<>>]

\* The counters of run() before its loop
FreshRunnerState ==
    [total_volume_processed |-> 0, total_volume_failed |-> 0,
     tx_success_count |-> 0, tx_failure_count |-> 0, tvl_history |-> <<>>]

\* engine.process_transaction(t) on an engine in state es: [ok, es]
Engine_process_transaction(es, t) ==
    CASE engine = "Passthrough" -> [ok |-> TRUE, es |-> es]
      [] engine = "Legacy" ->
            LET r == Legacy_process_transaction(es.channels, t)
            IN [ok |-> r.ok, es |-> [es EXCEPT !.channels = r.channels]]
      [] engine = "LegacyRefill" ->
            LET r == Refill_process_transaction(
                         [channels |-> es.channels,
                          total_fees_paid |-> es.total_fees_paid,
                          total_latency_seconds |-> es.total_latency_seconds,
                          refill_count |-> es.refill_count,
                          total_tx_count |-> es.total_tx_count],
                         channel_capacity, t)
            IN [ok |-> r.ok,
                es |-> [es EXCEPT !.channels = r.channels,
                                  !.total_fees_paid = r.total_fees_paid,
                                  !.total_latency_seconds = r.total_latency_seconds,
                                  !.refill_count = r.refill_count,
                                  !.total_tx_count = r.total_tx_count]]
      [] engine = "Ark" ->
            LET r == Ark_process_transaction(
                         [pool_balance |-> es.pool_balance,
                          user_balances |-> es.user_balances,
                          last_round_time |-> es.last_round_time,
                          round_count |-> es.round_count,
                          tvl_samples |-> es.tvl_samples], t)
            IN [ok |-> r.ok,
                es |-> [es EXCEPT !.pool_balance = r.st.pool_balance,
                                  !.user_balances = r.st.user_balances,
                                  !.last_round_time = r.st.last_round_time,
                                  !.round_count = r.st.round_count,
                                  !.tvl_samples = r.st.tvl_samples]]

\* engine.get_current_tvl() on an engine in state es
Engine_get_current_tvl_of(es) ==
    CASE engine = "Passthrough" -> 0
      [] engine \in {"Legacy", "LegacyRefill"} -> Legacy_get_current_tvl(es.channels)
      [] engine = "Ark" -> es.pool_balance

\* run() over the rows i .. Len(rows) on an engine in state es, the loop's
\* counters being st; outcomes collects what process_transaction returned
RECURSIVE Runner_run(_, _, _, _, _)
Runner_run(es, rows, i, st, outcomes) ==
    IF i > Len(rows) THEN [es |-> es, st |-> st, outcomes |-> outcomes]
    ELSE LET t == _row_to_transaction(rows[i])
             r == Engine_process_transaction(es, t)
         IN Runner_run(r.es, rows, i + 1,
                       Runner_record(st, t, r.ok, Engine_get_current_tvl_of(r.es)),
                       Append(outcomes, r.ok))

\* A second, independent run of the rows read so far
SecondRun == Runner_run(FreshEngineState, traffic, 1, FreshRunnerState, <<>>)

\* SimulationRunner.run over any engine
NextRunner ==
    \/ RunnerRead
    \/ PassthroughProcess \/ LegacyProcess \/ RefillProcess \/ ArkProcess
    \/ RunnerRecord
SpecRunner == InitRunner /\ [][NextRunner]_vars

\* -------------------------------------------------------- TrafficGenerator
UserType == {"MERCHANT", "CONSUMER", "HODLER"}

SECONDS_PER_HOUR == 3600
EXTERNAL_ENTITY_ID == -1
\* SimulationConfig, the traffic parameters; ratios and weights in hundredths
INTERNAL_TX_RATIO == 20
PEAK_HOUR_START == 8
PEAK_HOUR_END == 20
PEAK_MULTIPLIER == 2
SENDER_WEIGHTS == [MERCHANT |-> 2, CONSUMER |-> 93, HODLER |-> 5]
RECEIVER_WEIGHTS == [MERCHANT |-> 60, CONSUMER |-> 30, HODLER |-> 10]

\* TrafficGenerator._simulation_duration
_simulation_duration == SIMULATION_DAYS * SECONDS_PER_DAY

\* Lists of User as generate_users numbers them: user_id is the position,
\* the type is any.  The empty list is the population of TOTAL_USERS = 0.
Populations ==
    UNION { { [i \in 1 .. n |-> [user_id |-> i - 1, user_type |-> f[i]]] :
                f \in [1 .. n -> UserType] } : n \in 0 .. MaxUsers }

\* What rng.exponential may return, as whole seconds
InterArrivals == {6 * SECONDS_PER_HOUR, 12 * SECONDS_PER_HOUR}
\* What int(rng.lognormal(...)) may be
LognormalDraws == {0, 25000, 20000000}

Elements(s) == { s[i] : i \in DOMAIN s }

_build_user_type_index(us) ==
    [ut \in UserType |-> SelectSeq(us, LAMBDA u : u.user_type = ut)]

\* The acceptance probability at a timestamp, as a fraction
_get_time_intensity(timestamp) ==
    LET second_of_day == timestamp % SECONDS_PER_DAY
    IN IF /\ PEAK_HOUR_START * SECONDS_PER_HOUR <= second_of_day
          /\ second_of_day < PEAK_HOUR_END * SECONDS_PER_HOUR
       THEN Ratio(1, 1)
       ELSE Ratio(1, PEAK_MULTIPLIER)

\* The types rng may make it return: random() lies in [0, 1)
_select_transaction_type ==
    (IF INTERNAL_TX_RATIO > 0 THEN {"INTERNAL"} ELSE {})
    \cup (IF INTERNAL_TX_RATIO < 100
          THEN {"EXTERNAL_INBOUND", "EXTERNAL_OUTBOUND"} ELSE {})

\* The amounts it may return: the draw clamped to 100 .. 10,000,000 sats
_generate_amount ==
    { Max(100, IF raw < 10000000 THEN raw ELSE 10000000) : raw \in LognormalDraws }

\* The users rng may make it return: a type that has users and a positive
\* weight, then any user of that type
_select_user_weighted(us, users_by_type, type_weights) ==
    LET available_types == { ut \in UserType : users_by_type[ut] # <<>> }
        total == SumOver(type_weights, available_types)
        weights == [ut \in available_types |->
                        IF total = 0 THEN 1 ELSE type_weights[ut]]
        selectable == { ut \in available_types : weights[ut] > 0 }
    IN IF available_types = {} THEN Elements(us)
       ELSE UNION { Elements(users_by_type[ut]) : ut \in selectable }

\* The receivers the retry loop of _select_participants may end with, from
\* the receiver it holds after `attempts` retries
RECURSIVE _select_participants_retry(_, _, _, _)
_select_participants_retry(candidates, sender, receiver, attempts) ==
    IF receiver.user_id = sender.user_id /\ attempts < 10
    THEN UNION { _select_participants_retry(candidates, sender, r, attempts + 1) :
                    r \in candidates }
    ELSE {receiver}

\* "Fallback: pick any other user"
_select_participants_fallback(us, sender, receiver) ==
    IF receiver.user_id = sender.user_id
    THEN LET other_users == SelectSeq(us, LAMBDA u : u.user_id # sender.user_id)
         IN IF other_users # <<>> THEN Elements(other_users) ELSE {receiver}
    ELSE {receiver}

\* The pairs <<sender_id, receiver_id>> it may return
_select_participants(tx_type, us, users_by_type) ==
    LET senders == _select_user_weighted(us, users_by_type, SENDER_WEIGHTS)
        receivers == _select_user_weighted(us, users_by_type, RECEIVER_WEIGHTS)
    IN IF tx_type = "EXTERNAL_INBOUND"
       THEN { <<EXTERNAL_ENTITY_ID, receiver.user_id>> : receiver \in receivers }
       ELSE IF tx_type = "EXTERNAL_OUTBOUND"
       THEN { <<sender.user_id, EXTERNAL_ENTITY_ID>> : sender \in senders }
       ELSE UNION { LET retried == UNION { _select_participants_retry(
                                               receivers, sender, first, 0) :
                                           first \in receivers }
                        chosen == UNION { _select_participants_fallback(
                                              us, sender, receiver) :
                                          receiver \in retried }
                    IN { <<sender.user_id, receiver.user_id>> : receiver \in chosen } :
                    sender \in senders }

\* The transactions it may return; tx_id, a fresh uuid4 that nothing reads,
\* is left out as in every transaction here
_generate_single_transaction(timestamp, us, users_by_type) ==
    UNION { { [tx_type |-> tx_type, sender_id |-> pair[1], receiver_id |-> pair[2],
               amount_sats |-> amount, timestamp |-> timestamp] :
                amount \in _generate_amount,
                pair \in _select_participants(tx_type, us, users_by_type) } :
            tx_type \in _select_transaction_type }

\* TrafficGenerator(config) and a population to generate traffic for
InitTraffic ==
    /\ engine = "None"
    /\ NoLegacy /\ NoRefill /\ NoArk
    /\ tx = NoTx /\ ret = FALSE /\ pc = "idle"
    /\ clock = 0 /\ NoRunner /\ NoMetrics
    /\ users \in Populations
    /\ arrival_time = 0 /\ timestamps = <<>> /\ transactions = <<>>

\* generate_month_of_traffic(users) is called: an empty population returns []
GenerateCall ==
    /\ pc = "idle"
    /\ pc' = IF users = <<>> THEN "generated" ELSE "timestamps"
    /\ UNCHANGED <<engine, legacyVars, refillVars, arkVars, tx, ret, clock,
                   runnerVars, btc_days, trafficVars>>

\* One pass of the loop of _generate_timestamps: the next candidate either
\* ends the month or is kept with the probability of its hour
GenerateTimestamp ==
    /\ pc = "timestamps"
    /\ arrival_time < _simulation_duration
    /\ \E inter_arrival \in InterArrivals :
          LET candidate == arrival_time + inter_arrival
              intensity_ratio == _get_time_intensity(candidate)
          IN /\ arrival_time' = candidate
             /\ IF candidate >= _simulation_duration
                THEN pc' = "transactions" /\ timestamps' = timestamps
                ELSE /\ pc' = pc
                     /\ \/ /\ intensity_ratio.num > 0
                           /\ timestamps' = Append(timestamps, candidate)
                        \/ /\ intensity_ratio.num < intensity_ratio.den
                           /\ timestamps' = timestamps
    /\ UNCHANGED <<engine, legacyVars, refillVars, arkVars, tx, ret, clock,
                   runnerVars, btc_days, users, transactions>>

\* One pass of the loop of generate_month_of_traffic over the timestamps
GenerateTransaction ==
    /\ pc = "transactions"
    /\ Len(transactions) < Len(timestamps)
    /\ \E t \in _generate_single_transaction(timestamps[Len(transactions) + 1],
                                             users, _build_user_type_index(users)) :
          transactions' = Append(transactions, t)
    /\ UNCHANGED <<engine, legacyVars, refillVars, arkVars, tx, ret, pc, clock,
                   runnerVars, btc_days, users, arrival_time, timestamps>>

\* generate_month_of_traffic returns transactions
GenerateReturn ==
    /\ pc = "transactions"
    /\ Len(transactions) = Len(timestamps)
    /\ pc' = "generated"
    /\ UNCHANGED <<engine, legacyVars, refillVars, arkVars, tx, ret, clock,
                   runnerVars, btc_days, trafficVars>>

NextTraffic ==
    GenerateCall \/ GenerateTimestamp \/ GenerateTransaction \/ GenerateReturn
SpecTraffic == InitTraffic /\ [][NextTraffic]_vars

\* ------------------------------------------------------------------ claims
\* A step in which process_transaction runs from its call to its return
Processed == pc = "running" /\ pc' = "returned"

\* C1: in the static-channel engine every channel's local + remote equals
\* the channel_capacity given at construction, in every reachable state.
C1_LocalPlusRemoteIsCapacity ==
    engine = "Legacy" =>
        \A u \in Users : channels[u].local + channels[u].remote = channel_capacity

\* an internal transfer between two users has succeeded and emptied the
\* sender's side
C1_Witness ==
    /\ engine = "Legacy" /\ pc = "returned" /\ ret
    /\ tx.tx_type = "INTERNAL" /\ tx.sender_id # tx.receiver_id
    /\ channels[tx.sender_id].remote = 0
    /\ channels[tx.receiver_id].remote = channel_capacity

\* C2: in the static-channel engine and in the pooled engine a call that
\* returns false leaves every balance as it was: every channel's local and
\* remote, the pool balance and every user balance.
C2_RejectionLeavesBalances ==
    [][(Processed /\ engine \in {"Legacy", "Ark"} /\ ~ret') =>
          /\ channels' = channels
          /\ pool_balance' = pool_balance
          /\ user_balances' = user_balances]_vars

\* an outbound payment the user could afford was rejected for lack of pool
\* liquidity
C2_Witness ==
    /\ engine = "Ark" /\ pc = "returned" /\ ~ret
    /\ tx.tx_type = "EXTERNAL_OUTBOUND" /\ tx.sender_id \in Users
    /\ user_balances[tx.sender_id] >= tx.amount_sats
    /\ pool_balance < tx.amount_sats

\* C3: in the refill engine a call that returns false leaves every channel
\* unchanged and records no refill: refill count, fees and latency stay.
C3_RejectionNeverRefills ==
    [][(Processed /\ engine = "LegacyRefill" /\ ~ret') =>
          /\ channels' = channels
          /\ refill_count' = refill_count
          /\ total_fees_paid' = total_fees_paid
          /\ total_latency_seconds' = total_latency_seconds]_vars

\* an internal transfer was rejected although the receiver's channel was
\* short of LSP liquidity, which is what a refill repairs
C3_Witness ==
    /\ engine = "LegacyRefill" /\ pc = "returned" /\ ~ret
    /\ tx.tx_type = "INTERNAL"
    /\ tx.sender_id \in Users /\ tx.receiver_id \in Users
    /\ tx.sender_id # tx.receiver_id
    /\ channels[tx.receiver_id].local < tx.amount_sats

\* C4: in the pooled engine, built with pool_capacity >= 0 and driven by
\* positive amounts, pool_balance >= 0 in every reachable state.
C4_PoolNeverNegative == engine = "Ark" => pool_balance >= 0

\* an outbound payment has drained a pool that was not empty at construction
C4_Witness ==
    /\ engine = "Ark" /\ pc = "returned" /\ ret
    /\ tx.tx_type = "EXTERNAL_OUTBOUND"
    /\ pool_capacity > 0 /\ pool_balance = 0

\* C5: in the pooled engine an INTERNAL transaction, accepted or rejected,
\* leaves pool_balance and so get_current_tvl() unchanged.
C5_InternalLeavesPool ==
    [][(Processed /\ engine = "Ark" /\ tx.tx_type = "INTERNAL") =>
          /\ pool_balance' = pool_balance
          /\ Ark_get_current_tvl(ArkState)' = Ark_get_current_tvl(ArkState)]_vars

\* an internal transfer between two users has succeeded
C5_Witness ==
    /\ engine = "Ark" /\ pc = "returned" /\ ret
    /\ tx.tx_type = "INTERNAL" /\ tx.sender_id # tx.receiver_id
    /\ user_balances[tx.receiver_id] > user_initial_balance
    /\ pool_balance = pool_capacity

\* C6: in the static-channel engine an INTERNAL transfer of amt to a
\* different receiver succeeds exactly when both are registered,
\* remote[sender] >= amt and local[receiver] >= amt; on success the sender's
\* channel gets remote - amt, local + amt and the receiver's channel gets
\* local - amt, remote + amt; otherwise nothing changes, so no state shows
\* one leg without the other.
C6_InternalTransfer ==
    [][(Processed /\ engine = "Legacy" /\ tx.tx_type = "INTERNAL"
        /\ tx.sender_id # tx.receiver_id) =>
          LET s == tx.sender_id
              r == tx.receiver_id
              amt == tx.amount_sats
              accepted == /\ s \in Users /\ r \in Users
                          /\ channels[s].remote >= amt
                          /\ channels[r].local >= amt
          IN /\ ret' = accepted
             /\ accepted =>
                   channels' = [channels EXCEPT
                       ![s] = [local |-> channels[s].local + amt,
                               remote |-> channels[s].remote - amt],
                       ![r] = [local |-> channels[r].local - amt,
                               remote |-> channels[r].remote + amt]]
             /\ ~accepted => channels' = channels]_vars

\* a transfer was rejected only because the receiver's channel lacked LSP
\* liquidity: the sender, who could pay, has not been debited
C6_Witness ==
    /\ engine = "Legacy" /\ pc = "returned" /\ ~ret
    /\ tx.tx_type = "INTERNAL" /\ tx.sender_id # tx.receiver_id
    /\ tx.sender_id \in Users /\ tx.receiver_id \in Users
    /\ channels[tx.sender_id].remote >= tx.amount_sats
    /\ channels[tx.receiver_id].local < tx.amount_sats

\* C7: in the static-channel engine an EXTERNAL_OUTBOUND of amt from a
\* registered sender succeeds exactly when remote[sender] >= amt, and then
\* moves amt from remote to local; an amount equal to the remote balance
\* leaves remote = 0 and local = capacity; with remote = 0 every outbound
\* fails.
C7_ExternalOutbound ==
    [][(Processed /\ engine = "Legacy" /\ tx.tx_type = "EXTERNAL_OUTBOUND"
        /\ tx.sender_id \in Users) =>
          LET s == tx.sender_id
              amt == tx.amount_sats
              accepted == channels[s].remote >= amt
          IN /\ ret' = accepted
             /\ accepted =>
                   channels' = [channels EXCEPT
                       ![s] = [local |-> channels[s].local + amt,
                               remote |-> channels[s].remote - amt]]
             /\ ~accepted => channels' = channels
             /\ channels[s].remote = amt =>
                   /\ ret'
                   /\ channels'[s].remote = 0
                   /\ channels'[s].local = channel_capacity
             /\ channels[s].remote = 0 => ~ret']_vars

\* an outbound of the sender's whole balance has succeeded
C7_Witness ==
    /\ engine = "Legacy" /\ pc = "returned" /\ ret
    /\ tx.tx_type = "EXTERNAL_OUTBOUND"
    /\ channels[tx.sender_id].remote = 0
    /\ channels[tx.sender_id].local = channel_capacity

\* C8: in the static-channel engine an EXTERNAL_INBOUND of amt to a
\* registered receiver succeeds exactly when local[receiver] >= amt, and
\* then moves amt from local to remote; a channel whose local is 0 accepts
\* no inbound, and its local becomes positive again only by an accepted
\* outbound or internal transfer that the channel's user sends.
C8_ExternalInbound ==
    [][(Processed /\ engine = "Legacy") =>
          /\ (tx.tx_type = "EXTERNAL_INBOUND" /\ tx.receiver_id \in Users) =>
                LET r == tx.receiver_id
                    amt == tx.amount_sats
                    accepted == channels[r].local >= amt
                IN /\ ret' = accepted
                   /\ accepted =>
                         channels' = [channels EXCEPT
                             ![r] = [local |-> channels[r].local - amt,
                                     remote |-> channels[r].remote + amt]]
                   /\ ~accepted => channels' = channels
                   /\ channels[r].local = 0 => ~ret'
          /\ \A u \in Users :
                (channels[u].local = 0 /\ channels'[u].local > 0) =>
                    /\ ret'
                    /\ tx.tx_type \in {"EXTERNAL_OUTBOUND", "INTERNAL"}
                    /\ tx.sender_id = u]_vars

\* an inbound payment was refused by a channel that has no LSP-side balance
\* left and whose user holds the whole capacity
C8_Witness ==
    /\ engine = "Legacy" /\ pc = "returned" /\ ~ret
    /\ tx.tx_type = "EXTERNAL_INBOUND" /\ tx.receiver_id \in Users
    /\ channels[tx.receiver_id].local = 0
    /\ channels[tx.receiver_id].remote = channel_capacity

\* C9: in the refill engine an EXTERNAL_INBOUND of amt to a registered
\* receiver whose local < amt first raises local to
\* target = max(floor(capacity * refill_target_pct), amt), recording one
\* refill, and then applies the static rule: the call succeeds with
\* local = target - amt, remote increased by amt, refill_count increased by 1.
C9_InboundRefill ==
    [][(Processed /\ engine = "LegacyRefill"
        /\ tx.tx_type = "EXTERNAL_INBOUND" /\ tx.receiver_id \in Users
        /\ channels[tx.receiver_id].local < tx.amount_sats) =>
          LET r == tx.receiver_id
              amt == tx.amount_sats
              floor_pct == (channel_capacity * REFILL_TARGET_NUM)
                               \div REFILL_TARGET_DEN
              target == IF floor_pct >= amt THEN floor_pct ELSE amt
              refilled == Refill_step1(RefillState, channel_capacity, tx)
          IN /\ refilled.channels[r].local = target
             /\ refilled.channels[r].remote = channels[r].remote
             /\ refilled.refill_count = refill_count + 1
             /\ ret'
             /\ channels'[r].local = target - amt
             /\ channels'[r].remote = channels[r].remote + amt
             /\ \A u \in Users \ {r} : channels'[u] = channels[u]
             /\ refill_count' = refill_count + 1]_vars

\* the first call on the engine was an inbound larger than the refill
\* percentage of the capacity: one refill, and the whole target paid out
C9_Witness ==
    /\ engine = "LegacyRefill" /\ pc = "returned" /\ ret
    /\ tx.tx_type = "EXTERNAL_INBOUND"
    /\ total_tx_count = 1 /\ refill_count = 1
    /\ tx.amount_sats > (channel_capacity * REFILL_TARGET_NUM) \div REFILL_TARGET_DEN
    /\ channels[tx.receiver_id].local = 0

\* C10: in the refill engine an INTERNAL transaction refills the receiver's
\* channel only when the sender is registered and remote[sender] >= amt at
\* the call; otherwise no channel changes, refill_count stays and the
\* transaction fails.
C10_InternalRefillNeedsSolventSender ==
    [][(Processed /\ engine = "LegacyRefill" /\ tx.tx_type = "INTERNAL") =>
          LET s == tx.sender_id
              amt == tx.amount_sats
              solvent == s \in Users /\ channels[s].remote >= amt
          IN /\ refill_count' # refill_count => solvent
             /\ ~solvent =>
                   /\ channels' = channels
                   /\ refill_count' = refill_count
                   /\ ~ret']_vars

\* an internal transfer has refilled the receiver's channel and succeeded
C10_Witness ==
    /\ engine = "LegacyRefill" /\ pc = "returned" /\ ret
    /\ tx.tx_type = "INTERNAL" /\ tx.sender_id # tx.receiver_id
    /\ total_tx_count = 1 /\ refill_count = 1

\* C11: in the refill engine an EXTERNAL_OUTBOUND transaction never refills:
\* refill_count, the cumulative fees and the cumulative latency are the same
\* after the call as before it, whether the payment succeeds or fails.
C11_OutboundNeverRefills ==
    [][(Processed /\ engine = "LegacyRefill"
                  /\ tx.tx_type = "EXTERNAL_OUTBOUND") =>
          /\ refill_count' = refill_count
          /\ total_fees_paid' = total_fees_paid
          /\ total_latency_seconds' = total_latency_seconds]_vars

\* an outbound payment has failed on a channel whose LSP side is also too
\* small for the amount, and nothing was refilled
C11_Witness ==
    /\ engine = "LegacyRefill" /\ pc = "returned" /\ ~ret
    /\ tx.tx_type = "EXTERNAL_OUTBOUND" /\ tx.sender_id \in Users
    /\ channels[tx.sender_id].local < tx.amount_sats
    /\ channels[tx.sender_id].remote < tx.amount_sats
    /\ total_tx_count = 1 /\ refill_count = 0

\* C12: in the pooled engine an EXTERNAL_OUTBOUND from a registered sender
\* succeeds exactly when user_balance[sender] >= amt and pool_balance >= amt,
\* and on success both decrease by amt.
C12_ArkOutbound ==
    [][(Processed /\ engine = "Ark" /\ tx.tx_type = "EXTERNAL_OUTBOUND"
                  /\ tx.sender_id \in Users) =>
          LET s == tx.sender_id
              amt == tx.amount_sats
          IN /\ ret' = (user_balances[s] >= amt /\ pool_balance >= amt)
             /\ ret' =>
                   /\ user_balances' = [user_balances EXCEPT ![s] = @ - amt]
                   /\ pool_balance' = pool_balance - amt]_vars

\* the pool is shared: a user whose own balance covers the amount is refused
\* because the pool, large enough at construction, was drained by another
\* user's payments
C12_Witness ==
    /\ engine = "Ark" /\ pc = "returned" /\ ~ret
    /\ tx.tx_type = "EXTERNAL_OUTBOUND" /\ tx.sender_id \in Users
    /\ user_balances[tx.sender_id] >= tx.amount_sats
    /\ pool_capacity >= tx.amount_sats
    /\ pool_balance < tx.amount_sats
    /\ \E v \in Users \ {tx.sender_id} : user_balances[v] < user_initial_balance

\* C13: in the pooled engine an EXTERNAL_INBOUND to a registered receiver
\* always succeeds and adds amt to user_balance[receiver] and to pool_balance;
\* no capacity limits it.
C13_ArkInbound ==
    [][(Processed /\ engine = "Ark" /\ tx.tx_type = "EXTERNAL_INBOUND"
                  /\ tx.receiver_id \in Users) =>
          LET r == tx.receiver_id
              amt == tx.amount_sats
          IN /\ ret'
             /\ user_balances' = [user_balances EXCEPT ![r] = @ + amt]
             /\ pool_balance' = pool_balance + amt]_vars

\* a deposit has taken the pool above the capacity it was built with
C13_Witness ==
    /\ engine = "Ark" /\ pc = "returned" /\ ret
    /\ tx.tx_type = "EXTERNAL_INBOUND" /\ tx.receiver_id \in Users
    /\ pool_balance > pool_capacity
    /\ pool_balance - tx.amount_sats <= pool_capacity

\* C14: in the pooled engine an INTERNAL transaction between registered users
\* succeeds exactly when user_balance[sender] >= amt, whatever pool_balance
\* is; on success the sender loses amt and the receiver gains amt.
C14_ArkInternal ==
    [][(Processed /\ engine = "Ark" /\ tx.tx_type = "INTERNAL"
                  /\ tx.sender_id \in Users /\ tx.receiver_id \in Users) =>
          LET s == tx.sender_id
              r == tx.receiver_id
              amt == tx.amount_sats
          IN /\ ret' = (user_balances[s] >= amt)
             /\ (ret' /\ s # r) =>
                   user_balances' = [user_balances EXCEPT ![s] = @ - amt,
                                                          ![r] = @ + amt]
             /\ ~ret' => user_balances' = user_balances]_vars

\* an internal transfer between two users has succeeded over an empty pool
C14_Witness ==
    /\ engine = "Ark" /\ pc = "returned" /\ ret
    /\ tx.tx_type = "INTERNAL" /\ tx.sender_id # tx.receiver_id
    /\ pool_balance = 0
    /\ user_balances[tx.receiver_id] >= tx.amount_sats

\* C15: in the pooled engine fed with timestamps that never decrease, a call
\* with timestamp t adds floor((t - last_round_time) / interval) rounds,
\* advances last_round_time by that many whole intervals, and leaves
\* round_count = floor(t / interval): no round is skipped or counted twice.
C15_RoundCount ==
    [][(Processed /\ engine = "Ark") =>
          LET t == tx.timestamp
              n == (t - last_round_time) \div ARK_ROUND_INTERVAL
          IN /\ round_count' = round_count + n
             /\ last_round_time' = last_round_time + n * ARK_ROUND_INTERVAL
             /\ round_count' = t \div ARK_ROUND_INTERVAL]_vars

\* two rounds have been counted by two separate calls, the second of them at
\* the second boundary
C15_Witness ==
    /\ engine = "Ark" /\ pc = "returned"
    /\ tx.timestamp = 2 * ARK_ROUND_INTERVAL
    /\ clock = tx.timestamp
    /\ round_count = 2
    /\ Len(tvl_samples) = 3

\* C16: when a call crosses a round boundary the sample appended to the TVL
\* samples is pool_balance as it was before the pending transaction took
\* effect.
C16_SampleBeforeTransaction ==
    [][(Processed /\ engine = "Ark"
                  /\ tx.timestamp - last_round_time >= ARK_ROUND_INTERVAL) =>
          tvl_samples' = Append(tvl_samples, pool_balance)]_vars

\* the only round so far was crossed with the pool as constructed, and the
\* external payment of the call has moved the pool away from the sample
C16_Witness ==
    /\ engine = "Ark" /\ pc = "returned" /\ ret
    /\ tx.tx_type \in {"EXTERNAL_INBOUND", "EXTERNAL_OUTBOUND"}
    /\ tx.timestamp >= ARK_ROUND_INTERVAL
    /\ tx.timestamp - last_round_time < ARK_ROUND_INTERVAL
    /\ tvl_samples = <<pool_capacity, pool_capacity>>
    /\ \/ pool_balance = pool_capacity + tx.amount_sats
       \/ pool_balance = pool_capacity - tx.amount_sats

\* A step in which the loop of run() records the transaction just processed
Recorded == pc = "returned" /\ pc' = "idle"

\* C17: run() yields one (timestamp, tvl) sample per input transaction, in
\* input order: the i-th sample pairs the i-th transaction's timestamp with
\* get_current_tvl() read after that transaction was processed and before
\* the next one is, whether the transaction succeeded or failed.
C17_OneSamplePerTransaction ==
    [][Recorded =>
          LET i == Len(traffic)
          IN /\ Len(tvl_history') = i
             /\ \A k \in 1 .. i - 1 : tvl_history'[k] = tvl_history[k]
             /\ tvl_history'[i] = <<traffic[i].timestamp, Engine_get_current_tvl>>]_vars

\* two rows, the later one first, one accepted and one rejected, have left
\* two samples in input order with different TVLs
C17_Witness ==
    /\ pc = "idle" /\ Len(traffic) = 2 /\ Len(tvl_history) = 2
    /\ tx_success_count = 1 /\ tx_failure_count = 1
    /\ traffic[1].timestamp > traffic[2].timestamp
    /\ tvl_history[1][1] = traffic[1].timestamp
    /\ tvl_history[2][1] = traffic[2].timestamp
    /\ tvl_history[1][2] # tvl_history[2][2]

\* C18: after run(), tx_success_count + tx_failure_count is the number of
\* input transactions and total_volume_processed + total_volume_failed is the
\* sum of their amount_sats; a transaction is counted on the success side
\* exactly when process_transaction returned true for it.
C18_CountsAndVolumes ==
    [][Recorded =>
          LET amt == tx.amount_sats
          IN /\ tx_success_count' + tx_failure_count' = Len(traffic)
             /\ total_volume_processed' + total_volume_failed' =
                   SumSeq([k \in 1 .. Len(traffic) |-> traffic[k].amount_sats])
             /\ IF ret
                THEN /\ tx_success_count' = tx_success_count + 1
                     /\ total_volume_processed' = total_volume_processed + amt
                     /\ tx_failure_count' = tx_failure_count
                     /\ total_volume_failed' = total_volume_failed
                ELSE /\ tx_failure_count' = tx_failure_count + 1
                     /\ total_volume_failed' = total_volume_failed + amt
                     /\ tx_success_count' = tx_success_count
                     /\ total_volume_processed' = total_volume_processed]_vars

\* a run over two rows of different amounts has ended with one transaction and
\* its amount on each side
C18_Witness ==
    /\ pc = "idle" /\ Len(traffic) = 2
    /\ tx_success_count = 1 /\ tx_failure_count = 1
    /\ total_volume_processed > 0 /\ total_volume_failed > 0
    /\ total_volume_processed # total_volume_failed
    /\ total_volume_processed + total_volume_failed =
          traffic[1].amount_sats + traffic[2].amount_sats

\* The pairs of adjacent samples with a positive time delta
PositivePairs(h) == { i \in 2 .. Len(h) : h[i][1] - h[i - 1][1] > 0 }

\* The sum over a set I of pairs of v[i-1] * (t[i] - t[i-1])
RECURSIVE LeftRiemannSum(_, _)
LeftRiemannSum(h, I) ==
    IF I = {} THEN NoSatSeconds
    ELSE LET i == CHOOSE j \in I : TRUE
         IN AddSatSeconds(SatSeconds(h[i - 1][2], h[i][1] - h[i - 1][1]),
                          LeftRiemannSum(h, I \ {i}))

\* C19: calculate_btc_days returns the left Riemann sum of the history, the
\* sum over adjacent pairs with a positive time delta of v[i-1] * (t[i] -
\* t[i-1]), divided by sats_per_btc * seconds_per_day; pairs with a zero or
\* negative delta add nothing, and an empty or one-sample history gives 0.
C19_LeftRiemannSum ==
    btc_days.computed =>
        /\ btc_days = BtcDays(LeftRiemannSum(tvl_history,
                                             PositivePairs(tvl_history)))
        /\ Len(tvl_history) < 2 => btc_days = BtcDays(NoSatSeconds)

\* a history that steps back in time and then forward, with different TVLs
\* on the two sides of the forward step, has a non-zero result
C19_Witness ==
    /\ btc_days.computed /\ Len(tvl_history) = 3
    /\ tvl_history[2][1] < tvl_history[1][1]
    /\ tvl_history[3][1] > tvl_history[2][1]
    /\ tvl_history[1][2] > 0
    /\ tvl_history[2][2] > 0
    /\ tvl_history[2][2] # tvl_history[3][2]
    /\ btc_days # BtcDays(NoSatSeconds)

\* Every sample of h has the TVL v and no sample is older than the one before
ConstantOrdered(h, v) ==
    /\ \A i \in 1 .. Len(h) : h[i][2] = v
    /\ \A i \in 2 .. Len(h) : h[i - 1][1] <= h[i][1]

\* C20: on a time-ordered history whose samples all have the TVL v,
\* calculate_btc_days is v * (t_last - t_first) / (sats_per_btc *
\* seconds_per_day), however many samples lie in between; one BTC held for
\* 86400 seconds is exactly 1 BTC-day.
C20_ConstantTvl ==
    (btc_days.computed /\ Len(tvl_history) >= 1) =>
        LET h == tvl_history
            v == h[1][2]
        IN ConstantOrdered(h, v) =>
              btc_days = BtcDays(SatSeconds(v, h[Len(h)][1] - h[1][1]))

\* one BTC from time 0 to time 86400 with a sample in between is exactly one
\* BTC-day
C20_Witness ==
    /\ btc_days.computed /\ Len(tvl_history) = 3
    /\ ConstantOrdered(tvl_history, SATS_PER_BTC)
    /\ tvl_history[1][1] = 0
    /\ tvl_history[2][1] \in 1 .. SECONDS_PER_DAY - 1
    /\ tvl_history[3][1] = SECONDS_PER_DAY
    /\ btc_days = [computed |-> TRUE, days |-> 1, btc_seconds |-> 0,
                   sat_seconds |-> 0]

C22_FeesAndLatencyPerRefill ==
    engine = "LegacyRefill" =>
        /\ total_fees_paid = refill_count * REBALANCE_COST_SATS
        /\ total_latency_seconds = refill_count * REBALANCE_LATENCY_SECONDS
        /\ Refill_get_operational_stats(RefillState).total_fees_btc =
              Ratio(refill_count * REBALANCE_COST_SATS, SATS_PER_BTC)

\* two refills of more than one sat each have been paid for
C22_Witness ==
    /\ engine = "LegacyRefill" /\ pc = "returned" /\ ret
    /\ refill_count = 2
    /\ total_fees_paid = 2 * REBALANCE_COST_SATS
    /\ \A u \in Users : channels[u].local + channels[u].remote
                           > channel_capacity + 1

\* C23: avg_latency_seconds is the total refill latency divided by the number
\* of process_transaction calls made on the engine; every call adds one to
\* that number, accepted or rejected, of any type, with or without a refill,
\* and the average is 0 while no call has been made.
C23_AverageLatencyOverAllCalls ==
    [][/\ (engine = "LegacyRefill" /\ total_tx_count = 0) =>
             Refill_get_operational_stats(RefillState).avg_latency_seconds
                = Ratio(0, 1)
       /\ (Processed /\ engine = "LegacyRefill") =>
             /\ total_tx_count' = total_tx_count + 1
             /\ Refill_get_operational_stats(RefillState)'.avg_latency_seconds
                   = Ratio(total_latency_seconds', total_tx_count + 1)]_vars

\* one refill in two calls, the second of them rejected: 300 s on average
C23_Witness ==
    /\ engine = "LegacyRefill" /\ pc = "returned" /\ ~ret
    /\ total_tx_count = 2 /\ refill_count = 1
    /\ Refill_get_operational_stats(RefillState).avg_latency_seconds
          = [num |-> REBALANCE_LATENCY_SECONDS \div 2, den |-> 1]

\* C24: the pooled engine's TVL samples start as the one seed value
\* pool_capacity and grow by exactly one entry in each call that crosses at
\* least one round boundary, however many rounds pass in it, and by none in
\* any other call; avg_tvl is the mean of all entries, the seed included.
C24_TvlSamples ==
    /\ engine = "Ark" => tvl_samples = <<pool_capacity>>
    /\ [][(Processed /\ engine = "Ark") =>
             LET crossed == tx.timestamp - last_round_time >= ARK_ROUND_INTERVAL
                 n == Len(tvl_samples)
             IN /\ Len(tvl_samples') = IF crossed THEN n + 1 ELSE n
                /\ SubSeq(tvl_samples', 1, n) = tvl_samples
                /\ Ark_get_operational_stats(ArkState)'.avg_tvl =
                      Ratio(SumSeq(tvl_samples'), Len(tvl_samples'))]_vars

\* two rounds have passed in one call and left one sample beside the seed;
\* the pool has moved since, and the average is over both entries
C24_Witness ==
    /\ engine = "Ark" /\ pc = "returned"
    /\ round_count = 2 /\ Len(tvl_samples) = 2
    /\ tvl_samples[1] = pool_capacity
    /\ tvl_samples[2] # pool_capacity
    /\ Ark_get_operational_stats(ArkState).avg_tvl =
          Ratio(tvl_samples[1] + tvl_samples[2], 2)

\* C25: the SimulationResult returned by a run of the refill engine or of the
\* pooled engine carries operational_stats, the engine's statistics as they
\* stand after the last transaction, for the reporting code to read.
C25_ResultCarriesOperationalStats ==
    (pc = "idle" /\ engine \in {"LegacyRefill", "Ark"} /\ Len(traffic) > 0) =>
        /\ "operational_stats" \in DOMAIN Runner_result
        /\ Runner_result.operational_stats = Engine_get_operational_stats

\* a run of the refill engine has ended after a refill, with statistics to
\* report
C25_Witness ==
    /\ pc = "idle" /\ engine = "LegacyRefill" /\ Len(traffic) = 1
    /\ refill_count = 1
    /\ Engine_get_operational_stats.total_fees_btc
          = Ratio(REBALANCE_COST_SATS, SATS_PER_BTC)

\* The user id the transaction's type makes the engine look up is not one of
\* the registered users
Unregistered(t) ==
    \/ t.tx_type = "INTERNAL"
          /\ (t.sender_id \notin Users \/ t.receiver_id \notin Users)
    \/ t.tx_type = "EXTERNAL_INBOUND" /\ t.receiver_id \notin Users
    \/ t.tx_type = "EXTERNAL_OUTBOUND" /\ t.sender_id \notin Users

\* C26: in the static, refill and pooled engines a transaction whose sender
\* or receiver is not a registered user id, the external -1 included, returns
\* false, changes no balance, performs no refill and creates no entry for
\* the id: the registered users stay those of construction.
C26_UnknownUserRejected ==
    [][(Processed /\ Unregistered(tx)) =>
          /\ ~ret'
          /\ channels' = channels
          /\ user_balances' = user_balances
          /\ pool_balance' = pool_balance
          /\ refill_count' = refill_count
          /\ total_fees_paid' = total_fees_paid
          /\ total_latency_seconds' = total_latency_seconds
          /\ engine \in {"Legacy", "LegacyRefill"} => DOMAIN channels' = Users
          /\ engine = "Ark" => DOMAIN user_balances' = Users]_vars

\* the refill engine has rejected an internal transfer from a solvent sender
\* to an id that was never registered, without refilling anything
C26_Witness ==
    /\ engine = "LegacyRefill" /\ pc = "returned" /\ ~ret
    /\ tx.tx_type = "INTERNAL"
    /\ tx.sender_id \in Users /\ tx.receiver_id \notin Users
    /\ channels[tx.sender_id].remote >= tx.amount_sats
    /\ total_tx_count = 1 /\ refill_count = 0

\* C27: in the refill engine, with every party the transaction's type uses
\* registered and a positive amount, only the paying user's balance decides:
\* an EXTERNAL_INBOUND is always accepted, whatever the channel's local
\* balance; an INTERNAL transfer is rejected exactly when remote[sender] is
\* below the amount (and so is an EXTERNAL_OUTBOUND); the local balance of
\* the receiver's channel never causes a rejection.
C27_OnlyUserBalanceFails ==
    [][(Processed /\ engine = "LegacyRefill" /\ ~Unregistered(tx)
            /\ tx.amount_sats > 0) =>
          /\ tx.tx_type = "EXTERNAL_INBOUND" => ret'
          /\ tx.tx_type = "INTERNAL" =>
                (ret' <=> channels[tx.sender_id].remote >= tx.amount_sats)
          /\ tx.tx_type = "EXTERNAL_OUTBOUND" =>
                (ret' <=> channels[tx.sender_id].remote >= tx.amount_sats)]_vars

\* an internal transfer has been accepted although the receiver's channel
\* started with nothing on the LSP side: the one refill so far made it pass
C27_Witness ==
    /\ engine = "LegacyRefill" /\ pc = "returned" /\ ret
    /\ tx.tx_type = "INTERNAL" /\ tx.sender_id # tx.receiver_id
    /\ tx.sender_id \in Users /\ tx.receiver_id \in Users
    /\ initial_split = 0
    /\ total_tx_count = 1 /\ refill_count = 1
    /\ channels[tx.receiver_id].remote = channel_capacity + tx.amount_sats

\* C28: every transaction generate_month_of_traffic produces, for any
\* non-empty population, has a sender different from its receiver; an
\* INTERNAL transaction in particular names two distinct users of the
\* population.
C28_SenderDiffersFromReceiver ==
    users # <<>> =>
        \A i \in DOMAIN transactions :
            LET t == transactions[i]
                ids == { u.user_id : u \in Elements(users) }
            IN /\ t.sender_id # t.receiver_id
               /\ t.tx_type = "INTERNAL" =>
                     (t.sender_id \in ids /\ t.receiver_id \in ids)

\* the month generated for a population of one user is complete and holds
\* an INTERNAL transaction from that user to itself
C28_Witness ==
    /\ pc = "generated" /\ Len(users) = 1
    /\ \E i \in DOMAIN transactions :
          /\ transactions[i].tx_type = "INTERNAL"
          /\ transactions[i].sender_id = users[1].user_id
          /\ transactions[i].receiver_id = users[1].user_id

\* C29: in the pooled engine the round check runs in every
\* process_transaction call, whatever the transaction's type and whether it
\* is accepted or rejected: a call whose timestamp is one interval or more
\* past last_round_time adds the whole rounds that passed to round_count,
\* moves last_round_time by as many intervals and appends the pool balance
\* from before the transaction to the TVL samples.
C29_RoundCheckOnEveryCall ==
    [][(Processed /\ engine = "Ark"
            /\ tx.timestamp - last_round_time >= ARK_ROUND_INTERVAL) =>
          LET rounds_passed == (tx.timestamp - last_round_time) \div ARK_ROUND_INTERVAL
          IN /\ round_count' = round_count + rounds_passed
             /\ last_round_time' = last_round_time + rounds_passed * ARK_ROUND_INTERVAL
             /\ tvl_samples' = Append(tvl_samples, pool_balance)]_vars

\* a transfer from an id that was never registered has been rejected, and
\* the two rounds its timestamp crossed were counted and sampled once
C29_Witness ==
    /\ engine = "Ark" /\ pc = "returned" /\ ~ret
    /\ tx.tx_type = "INTERNAL" /\ tx.sender_id \notin Users
    /\ tx.timestamp >= 2 * ARK_ROUND_INTERVAL
    /\ round_count = 2 /\ last_round_time = 2 * ARK_ROUND_INTERVAL
    /\ tvl_samples = <<pool_capacity, pool_capacity>>
    /\ pool_balance = pool_capacity

\* C30: whenever the static-channel engine would accept the transaction from
\* the channel state the refill engine is in, the refill engine accepts it
\* too, performs no refill (refill_count, fees and latency unchanged) and
\* ends in exactly the channel state the static engine ends in.
C30_RefillExtendsStatic ==
    [][(Processed /\ engine = "LegacyRefill"
            /\ Legacy_process_transaction(channels, tx).ok) =>
          /\ ret'
          /\ refill_count' = refill_count
          /\ total_fees_paid' = total_fees_paid
          /\ total_latency_seconds' = total_latency_seconds
          /\ channels' = Legacy_process_transaction(channels, tx).channels]_vars

\* the refill engine has accepted its first transaction, an inbound payment
\* the LSP side could carry although it was below the refill target, and
\* has not refilled
C30_Witness ==
    /\ engine = "LegacyRefill" /\ pc = "returned" /\ ret
    /\ tx.tx_type = "EXTERNAL_INBOUND"
    /\ total_tx_count = 1 /\ refill_count = 0 /\ total_fees_paid = 0
    /\ channels[tx.receiver_id].local + tx.amount_sats
          < IntOfProduct(channel_capacity, REFILL_TARGET_NUM, REFILL_TARGET_DEN)
    /\ channels[tx.receiver_id].local + channels[tx.receiver_id].remote
          = channel_capacity

\* C31: in the pooled engine pool_balance minus the sum of all user balances
\* is the same in every reachable state: pool_capacity minus the number of
\* registered users times user_initial_balance.
C31_PoolMinusUserBalances ==
    engine = "Ark" =>
        pool_balance - SumOver(user_balances, DOMAIN user_balances)
            = pool_capacity - Cardinality(Users) * user_initial_balance

\* deposits have taken the pool above its capacity while a user has paid
\* part of the initial balance away
C31_Witness ==
    /\ engine = "Ark"
    /\ pool_balance > pool_capacity
    /\ \E u \in Users : user_balances[u] < user_initial_balance
    /\ \E u \in Users : user_balances[u] > user_initial_balance

\* C32: in every reachable state of the pooled engine last_round_time is
\* round_count * ARK_ROUND_INTERVAL, and round_count never decreases, in
\* whatever order the timestamps arrive: a transaction whose timestamp is at
\* or before last_round_time, or less than one interval after it, leaves
\* round_count, last_round_time and the TVL samples unchanged.
C32_RoundsUnderAnyOrder ==
    /\ [](engine = "Ark" => last_round_time = round_count * ARK_ROUND_INTERVAL)
    /\ [][engine = "Ark" =>
             /\ round_count' >= round_count
             /\ (Processed /\ tx.timestamp - last_round_time < ARK_ROUND_INTERVAL) =>
                   /\ round_count' = round_count
                   /\ last_round_time' = last_round_time
                   /\ tvl_samples' = tvl_samples]_vars

\* a transaction stamped before the second round has been processed after
\* that round was counted, and the two rounds are still counted
C32_Witness ==
    /\ engine = "Ark" /\ pc = "returned"
    /\ tx.timestamp < ARK_ROUND_INTERVAL
    /\ round_count = 2 /\ last_round_time = 2 * ARK_ROUND_INTERVAL
    /\ Len(tvl_samples) = 2

\* local + remote of a user's channel
ChannelTotal(chans, u) == chans[u].local + chans[u].remote

\* C33: in the refill engine every channel has local + remote >= the channel
\* capacity and the sum never decreases; a call performs at most one refill;
\* the sum changes only in a call that refills, and then only on the
\* receiver's channel, where it grows by exactly target - local_before with
\* target = max(int(capacity * REFILL_TARGET_PCT), amount).
C33_ChannelTotalGrowsByRefill ==
    /\ [](engine = "LegacyRefill" =>
             \A u \in DOMAIN channels : ChannelTotal(channels, u) >= channel_capacity)
    /\ [][engine = "LegacyRefill" =>
             /\ refill_count' \in {refill_count, refill_count + 1}
             /\ \A u \in DOMAIN channels :
                   ChannelTotal(channels', u) >= ChannelTotal(channels, u)
             /\ refill_count' = refill_count =>
                   \A u \in DOMAIN channels :
                       ChannelTotal(channels', u) = ChannelTotal(channels, u)
             /\ refill_count' = refill_count + 1 =>
                   LET target == Max(IntOfProduct(channel_capacity, REFILL_TARGET_NUM,
                                                  REFILL_TARGET_DEN), tx.amount_sats)
                   IN \A u \in DOMAIN channels :
                          ChannelTotal(channels', u) - ChannelTotal(channels, u)
                              = IF u = tx.receiver_id
                                THEN target - channels[u].local
                                ELSE 0]_vars

\* two calls have refilled the same channel, which started with nothing on
\* the LSP side; it now holds more than its capacity plus the last amount,
\* and the other channel still holds its capacity
C33_Witness ==
    /\ engine = "LegacyRefill" /\ pc = "returned" /\ ret
    /\ initial_split = 0
    /\ total_tx_count = 2 /\ refill_count = 2
    /\ \E u \in Users :
          /\ tx.receiver_id = u
          /\ ChannelTotal(channels, u) > channel_capacity + tx.amount_sats
          /\ \A v \in Users \ {u} : ChannelTotal(channels, v) = channel_capacity

\* C34: in the static-channel engine, built with an initial split in [0, 1]
\* and driven by positive amounts, every channel keeps
\* 0 <= local <= channel_capacity and 0 <= remote <= channel_capacity, so
\* get_current_tvl() lies between 0 and the number of users times
\* channel_capacity.
C34_ChannelWithinCapacity ==
    engine = "Legacy" =>
        /\ \A u \in DOMAIN channels :
              /\ 0 <= channels[u].local /\ channels[u].local <= channel_capacity
              /\ 0 <= channels[u].remote /\ channels[u].remote <= channel_capacity
        /\ 0 <= Legacy_get_current_tvl(channels)
        /\ Legacy_get_current_tvl(channels)
              <= Cardinality(DOMAIN channels) * channel_capacity

\* from an even split one channel has been driven to the LSP side holding
\* the whole capacity and another to the user holding it
C34_Witness ==
    /\ engine = "Legacy"
    /\ 2 * initial_split = SplitDen /\ channel_capacity >= 2
    /\ \E u, v \in Users :
          /\ channels[u].local = channel_capacity /\ channels[u].remote = 0
          /\ channels[v].local = 0 /\ channels[v].remote = channel_capacity

\* C35: in the pooled engine, built with a non-negative user_initial_balance
\* and driven by positive amounts, every user balance is >= 0 in every
\* reachable state: no sequence of outbound and internal transfers overdraws
\* a user.
C35_UserBalanceNeverNegative ==
    engine = "Ark" => \A u \in DOMAIN user_balances : user_balances[u] >= 0

\* a user who has transferred the whole initial balance away is refused an
\* outbound payment that the pool could have paid
C35_Witness ==
    /\ engine = "Ark" /\ pc = "returned" /\ ~ret
    /\ tx.tx_type = "EXTERNAL_OUTBOUND" /\ tx.sender_id \in Users
    /\ user_initial_balance > 0
    /\ user_balances[tx.sender_id] = 0
    /\ pool_balance >= tx.amount_sats
    /\ \E v \in Users \ {tx.sender_id} : user_balances[v] > user_initial_balance

\* The samples of h whose TVL is never read with a positive time step: the
\* last one, and any that the next sample does not lie after in time
Uncounted(h) ==
    { i \in 1 .. Len(h) : i = Len(h) \/ h[i + 1][1] - h[i][1] <= 0 }

\* C36: the result of calculate_btc_days does not depend on the TVL of the
\* last sample, nor on the TVL of a sample followed by a zero or negative
\* time step: with any other TVL in such a sample the result is the same.
C36_UncountedSamples ==
    btc_days.computed =>
        \A i \in Uncounted(tvl_history) :
            \A v \in SampleTvls :
                calculate_btc_days([tvl_history EXCEPT ![i] = <<tvl_history[i][1], v>>])
                    = btc_days

\* one BTC in the first sample, which the second steps back from, and one
\* BTC in the last sample are not counted: the result is the one sat of the
\* middle sample over the day that follows it
C36_Witness ==
    /\ btc_days.computed /\ Len(tvl_history) = 3
    /\ tvl_history[1] = <<1, SATS_PER_BTC>>
    /\ tvl_history[2] = <<0, 1>>
    /\ tvl_history[3] = <<SECONDS_PER_DAY, SATS_PER_BTC>>
    /\ btc_days = BtcDays(SatSeconds(1, SECONDS_PER_DAY))
    /\ btc_days # BtcDays(NoSatSeconds)

====
